---- MODULE Spec2Model ----
(***************************************************************************)
(* Receipt extraction of the expense page: the OCR dispatcher               *)
(* (src/lib/ocr.ts, runReceiptOcr), the expense page that starts it and     *)
(* owns the form (src/pages/ExpensePage.tsx), and the pure field            *)
(* extractors (parseReceiptText).                                           *)
(*                                                                          *)
(* Strings that the code inspects character by character are sequences of  *)
(* one-character strings; opaque values (paths, payloads) are strings.      *)
(***************************************************************************)
EXTENDS Integers, Sequences, FiniteSets, TLC

VARIABLES
    ocrMode,                \* appStore.ocrMode
    ocrApiKey,              \* appStore.ocrApiKey (a sequence of characters)
    onLine,                 \* navigator.onLine
    mounted,                \* the ExpensePage instance is mounted
    receiptPath,            \* useState receiptPath
    ocrBusy,                \* useState ocrBusy
    ocrProgress,            \* useState ocrProgress
    ocrDraft,               \* useState ocrDraft
    ocrOpen,                \* useState ocrOpen
    confirmMissingReceipt,  \* useState confirmMissingReceipt
    duplicateState,         \* useState duplicateState
    form,                   \* react-hook-form values
    submitting,             \* handleSubmit in progress: formState.isSubmitting
    creates,                \* api.createExpense calls awaiting their answer
    pickPending,            \* the pick button's api.pickReceipt() is awaited
    toasts,                 \* toastStore.toasts (the variant of each)
    ocrJob,                    \* the current (or last) startOcr invocation
    text,                   \* input of parseReceiptText
    suggestion,             \* its OcrSuggestion
    parsePc,                \* position of the parseReceiptText call
    categories,             \* the category list given to suggestCategoryId
    suggestedCategoryId,    \* its result
    suggestPc,              \* position of the suggestCategoryId call
    decimalInput,           \* input of parseDecimalInput
    numberValue,            \* its result
    decimalPc               \* position of the parseDecimalInput call

pageVars == <<mounted, receiptPath, ocrBusy, ocrProgress, ocrDraft, ocrOpen,
              confirmMissingReceipt, duplicateState, form, submitting, creates, pickPending, toasts>>
ocrVars == <<ocrMode, ocrApiKey, onLine, ocrJob>>
parseVars == <<text, suggestion, parsePc, categories, suggestedCategoryId, suggestPc,
               decimalInput, numberValue, decimalPc>>
vars == <<ocrMode, ocrApiKey, onLine, mounted, receiptPath, ocrBusy, ocrProgress, ocrDraft,
          ocrOpen, confirmMissingReceipt, duplicateState, form, submitting, creates, pickPending, toasts, ocrJob, text, suggestion, parsePc,
          categories, suggestedCategoryId, suggestPc, decimalInput, numberValue, decimalPc>>

\* null / undefined of the opaque string-valued cells
Null == "null"

(***************************************************************************)
(* Bounds of the model                                                      *)
(***************************************************************************)
MaxCreates == 2     \* api.createExpense calls awaiting their answer at the same time
MaxPageCreates == 1 \* the same while the steps of an extraction are explored with them
MaxToasts == 1      \* toasts shown at the same time

OcrModes == {"auto", "offline", "online"}
\* stored credential: empty, blank, usable, usable with surrounding blanks
ApiKeys == {<<>>, <<" ">>, <<"k">>, <<" ", "k">>}
Paths == {"receipt"}
ContentTypes == {"image/jpeg", "application/pdf"}
RemoteTexts == {"", "remote text"}
LocalTexts == {"", "local text"}

(***************************************************************************)
(* Character helpers shared by the dispatcher and the extractors            *)
(***************************************************************************)
Whitespace == {" ", "\t", "\r", "\n"}

RECURSIVE TrimStart(_)
TrimStart(s) ==
    IF s # <<>> /\ Head(s) \in Whitespace THEN TrimStart(Tail(s)) ELSE s

RECURSIVE TrimEnd(_)
TrimEnd(s) ==
    IF s # <<>> /\ s[Len(s)] \in Whitespace
    THEN TrimEnd(SubSeq(s, 1, Len(s) - 1))
    ELSE s

\* String.prototype.trim
Trim(s) == TrimEnd(TrimStart(s))

\* !!value of a string
Truthy(s) == s # <<>>

(***************************************************************************)
(* runReceiptOcr and the two engines                                        *)
(***************************************************************************)
NoResult == [status |-> "none", text |-> "", method |-> "", error |-> ""]

FreeJob ==
    [pc |-> "free", contentType |-> Null, online |-> FALSE, log |-> <<>>,
     worker |-> "none", sent |-> <<>>, image |-> <<>>,
     localText |-> Null, result |-> NoResult]

\* `data:${source.contentType};base64,${source.dataBase64}`
DataUrl(contentType) == <<"data:", contentType, ";base64,", "source">>

\* canvas.toDataURL("image/png") of the rendered first page
RenderedPage == <<"data:", "image/png", ";base64,", "canvas(page 1)">>

\* what getImageDataUrl resolves to
getImageDataUrl(contentType) ==
    IF contentType = "application/pdf" THEN RenderedPage ELSE DataUrl(contentType)

Logged(job, event) == [job EXCEPT !.log = Append(@, event)]

Has(job, event) == \E i \in 1..Len(job.log) : job.log[i] = event

\* position of the first occurrence of an event in a job's log, 0 when absent
FirstAt(job, event) ==
    IF Has(job, event)
    THEN CHOOSE i \in 1..Len(job.log) :
            job.log[i] = event /\ \A k \in 1..(i - 1) : job.log[k] # event
    ELSE 0

Count(job, event) == Cardinality({i \in 1..Len(job.log) : job.log[i] = event})

\* runReceiptOcr rejects: the promise startOcr awaits is rejected with err
Throw(job, err) ==
    [job EXCEPT !.pc = "ended",
                !.result = [status |-> "error", text |-> "", method |-> "",
                            error |-> err]]

\* mutant: the connectivity of the host is not consulted
WantsOnline_IgnoresConnectivity(mode, apiKey, hostOnline) ==
    mode = "online" \/ (mode = "auto" /\ Truthy(apiKey))

\* runReceiptOcr resolves with { text, method }
Return(job, txt, method) ==
    [job EXCEPT !.pc = "ended",
                !.result = [status |-> "ok", text |-> txt, method |-> method,
                            error |-> ""]]

WantsOnline(mode, apiKey, hostOnline) ==
    mode = "online" \/ (mode = "auto" /\ Truthy(apiKey) /\ hostOnline)

\* runOfflineOcr up to its first pending await
StartOffline(job) ==
    LET j1 == Logged(job, "offline:start") IN
    IF j1.contentType = "application/pdf"
    THEN [j1 EXCEPT !.pc = "raster"]
    ELSE [Logged(j1, "raster:done") EXCEPT
              !.image = getImageDataUrl(j1.contentType), !.pc = "createWorker"]

\* mutant: the catch block falls back to the local engine in every mode
OnlineFailed_AlwaysFallsBack(job, err) == StartOffline(Logged(job, "online:fail"))

\* the catch block of runReceiptOcr
OnlineFailed(job, err) ==
    LET j1 == Logged(job, "online:fail") IN
    IF ocrMode = "online" THEN Throw(j1, err) ELSE StartOffline(j1)

\* mutant: the rasterizer's output is posted
OnlinePayload_Rasterized(job) == getImageDataUrl(job.contentType)

\* the payload runOnlineOcr posts as base64Image
OnlinePayload(job) == DataUrl(job.contentType)

\* mutant: the credential is tested as configured, without trimming it
StartOnline_TestsUntrimmed(job) ==
    LET j1 == Logged(job, "online:start") IN
    IF ~Truthy(ocrApiKey)
    THEN OnlineFailed(j1, "Kein API-Schluessel fuer Online-OCR")
    ELSE [Logged(j1, "online:fetch") EXCEPT !.sent = OnlinePayload(j1), !.pc = "fetch"]

\* runOnlineOcr up to its first pending await
StartOnline(job) ==
    LET j1 == Logged(job, "online:start") IN
    IF ~Truthy(Trim(ocrApiKey))
    THEN OnlineFailed(j1, "Kein API-Schluessel fuer Online-OCR")
    ELSE [Logged(j1, "online:fetch") EXCEPT !.sent = OnlinePayload(j1), !.pc = "fetch"]

\* runReceiptOcr from its call to its first pending await
RunReceiptOcr(job) ==
    IF WantsOnline(ocrMode, ocrApiKey, job.online)
    THEN StartOnline(job)
    ELSE StartOffline(job)

\* lines 48-49: the remote text is returned tagged "online"
OnlineSucceeded(job, txt) ==
    Return(Logged(job, "online:ok"), txt, "online")

\* mutant: the tag names the engine that was tried first
OfflineSucceeded_TagsFirstEngine(job) ==
    Return(Logged(job, "offline:ok"), job.localText,
           IF Has(job, "online:start") THEN "online" ELSE "offline")

\* lines 57-58: the local text is returned tagged "offline"
OfflineSucceeded(job) ==
    Return(Logged(job, "offline:ok"), job.localText, "offline")

\* mutant: a failed local engine falls back to the remote one when it was not tried
OfflineFailed_TriesRemote(job, err) ==
    IF Has(job, "online:start") \/ ~Truthy(Trim(ocrApiKey))
    THEN Throw(Logged(job, "offline:fail"), err)
    ELSE [Logged(Logged(Logged(job, "offline:fail"), "online:start"), "online:fetch")
              EXCEPT !.sent = DataUrl(job.contentType), !.pc = "fetch"]

\* an await of runOfflineOcr rejects: nothing catches it before startOcr
OfflineFailed(job, err) == Throw(Logged(job, "offline:fail"), err)

\* getImageDataUrl of a PDF has rendered the first page
Rasterized(job) ==
    [Logged(job, "raster:done") EXCEPT
         !.image = getImageDataUrl(job.contentType), !.pc = "createWorker"]

\* createWorker resolved; worker.recognize(image) is called
WorkerReady(job) ==
    [Logged(job, "worker:create") EXCEPT !.worker = "live", !.pc = "recognize"]

\* worker.recognize resolved; worker.terminate() is called
Recognized(job, txt) == [job EXCEPT !.localText = txt, !.pc = "terminate"]

\* worker.terminate resolved; runOfflineOcr returns result.data.text ?? ""
Terminated(job) ==
    OfflineSucceeded([Logged(job, "worker:terminate") EXCEPT !.worker = "terminated"])

(***************************************************************************)
(* ExpensePage: startOcr                                                    *)
(***************************************************************************)
Idle == [active |-> FALSE, receipt |-> Null]

\* the try block of startOcr after runReceiptOcr resolved, then finally
OcrResolved ==
    /\ ocrDraft' = "suggested"
    /\ ocrOpen' = TRUE
    /\ ocrBusy' = FALSE
    /\ ocrProgress' = Null
    /\ UNCHANGED <<mounted, receiptPath, confirmMissingReceipt, duplicateState, form,
                   submitting, creates, pickPending, toasts>>

\* the catch block of startOcr, then finally
OcrRejected ==
    /\ Len(toasts) < MaxToasts
    /\ toasts' = Append(toasts, "danger")
    /\ ocrBusy' = FALSE
    /\ ocrProgress' = Null
    /\ UNCHANGED <<mounted, receiptPath, ocrDraft, ocrOpen, confirmMissingReceipt,
                   duplicateState, form, submitting, creates, pickPending>>

\* one step of a startOcr invocation: the invocation moves on, and when runReceiptOcr
\* (or readReceiptFile) has settled, the rest of startOcr runs
JobStep(next) ==
    /\ ocrJob' = next
    /\ IF next.pc # "ended" THEN UNCHANGED pageVars
       ELSE IF next.result.status = "ok" THEN OcrResolved ELSE OcrRejected
    /\ UNCHANGED <<ocrMode, ocrApiKey, onLine>>
    /\ UNCHANGED parseVars

\* lines 193-195, reached with a selected path
BeginScan(path) ==
    /\ receiptPath' = path
    /\ ocrBusy' = TRUE
    /\ ocrProgress' = "0"
    /\ ocrJob' = [FreeJob EXCEPT !.pc = "reading"]
    /\ UNCHANGED <<mounted, ocrDraft, ocrOpen, confirmMissingReceipt, duplicateState,
                   form, submitting, creates, pickPending, toasts>>

\* mutant: the scan button is never disabled
ScanDisabled_Never == FALSE

\* disabled={ocrBusy} of the scan button
ScanDisabled == ocrBusy

\* The file dialog of api.pickReceipt() is modal to the window: while one is
\* open the page receives no click, and the answers of calls already made
\* still arrive.
DialogOpen == ocrJob.pc = "picking" \/ pickPending

\* the page can be clicked
Clickable == mounted /\ ~DialogOpen

\* the scan button: startOcr(receiptPath)
ClickScan ==
    /\ Clickable
    /\ ~ScanDisabled
    /\ IF receiptPath # Null
       THEN BeginScan(receiptPath)
       ELSE /\ ocrJob' = [FreeJob EXCEPT !.pc = "picking"]
            /\ UNCHANGED pageVars
    /\ UNCHANGED <<ocrMode, ocrApiKey, onLine>>
    /\ UNCHANGED parseVars

\* api.pickReceipt() of startOcr resolved with a path or with null
ScanPicked ==
    /\ ocrJob.pc = "picking"
    /\ \E sel \in Paths \cup {Null} :
        IF sel = Null
        THEN /\ ocrJob' = [ocrJob EXCEPT !.pc = "ended"]
             /\ UNCHANGED pageVars
        ELSE BeginScan(sel)
    /\ UNCHANGED <<ocrMode, ocrApiKey, onLine>>
    /\ UNCHANGED parseVars

\* api.readReceiptFile resolved: runReceiptOcr is called (navigator.onLine is read)
ReadResolved ==
    /\ ocrJob.pc = "reading"
    /\ \E ct \in ContentTypes :
        JobStep(RunReceiptOcr([ocrJob EXCEPT !.contentType = ct, !.online = onLine]))

ReadRejected ==
    /\ ocrJob.pc = "reading"
    /\ JobStep(Throw(ocrJob, "read_receipt_file"))

\* fetch settled: a response (ok or not) or a network error
FetchSettled ==
    /\ ocrJob.pc = "fetch"
    /\ \E outcome \in {"ok", "notOk", "rejected"} :
        JobStep(CASE outcome = "ok" -> [ocrJob EXCEPT !.pc = "json"]
                     [] outcome = "notOk" ->
                            OnlineFailed(ocrJob, "Online-OCR fehlgeschlagen")
                     [] outcome = "rejected" -> OnlineFailed(ocrJob, "fetch"))

\* response.json() settled
JsonSettled ==
    /\ ocrJob.pc = "json"
    /\ \E outcome \in {"parsed", "errored", "rejected"}, txt \in RemoteTexts :
        JobStep(CASE outcome = "parsed" -> OnlineSucceeded(ocrJob, txt)
                     [] outcome = "errored" -> OnlineFailed(ocrJob, "Online-OCR Fehler")
                     [] outcome = "rejected" -> OnlineFailed(ocrJob, "json"))

\* the awaits of getImageDataUrl for a PDF (getDocument, getPage, render) settled
RasterSettled ==
    /\ ocrJob.pc = "raster"
    /\ \E ok \in BOOLEAN :
        JobStep(IF ok THEN Rasterized(ocrJob)
                         ELSE OfflineFailed(ocrJob, "rasterize"))

WorkerSettled ==
    /\ ocrJob.pc = "createWorker"
    /\ \E ok \in BOOLEAN :
        JobStep(IF ok THEN WorkerReady(ocrJob)
                         ELSE OfflineFailed(ocrJob, "createWorker"))

\* the logger of the worker: options.onProgress -> setOcrProgress
Progress ==
    /\ ocrJob.pc \in {"createWorker", "recognize"}
    /\ ocrProgress' = "p"
    /\ UNCHANGED <<mounted, receiptPath, ocrBusy, ocrDraft, ocrOpen,
                   confirmMissingReceipt, duplicateState, form, submitting, creates, pickPending, toasts>>
    /\ UNCHANGED ocrVars
    /\ UNCHANGED parseVars

RecognizeSettled ==
    /\ ocrJob.pc = "recognize"
    /\ \E ok \in BOOLEAN, txt \in LocalTexts :
        JobStep(IF ok THEN Recognized(ocrJob, txt)
                         ELSE OfflineFailed(ocrJob, "recognize"))

TerminateSettled ==
    /\ ocrJob.pc = "terminate"
    /\ \E ok \in BOOLEAN :
        JobStep(IF ok THEN Terminated(ocrJob)
                         ELSE OfflineFailed(ocrJob, "terminate"))

\* the host goes online or offline
NetworkChange ==
    /\ onLine' = ~onLine
    /\ UNCHANGED <<ocrMode, ocrApiKey, ocrJob>>
    /\ UNCHANGED pageVars
    /\ UNCHANGED parseVars

\* the page is left: React unmounts the ExpensePage instance
Unmount ==
    /\ Clickable
    /\ mounted' = FALSE
    /\ UNCHANGED <<receiptPath, ocrBusy, ocrProgress, ocrDraft, ocrOpen,
                   confirmMissingReceipt, duplicateState, form, submitting, creates, pickPending, toasts>>
    /\ UNCHANGED ocrVars
    /\ UNCHANGED parseVars

(***************************************************************************)
(* ExpensePage: the form, its dialogs and the review modal                  *)
(***************************************************************************)
\* disabled={isSubmitting} of the save button
SaveDisabled == submitting.active

\* submit(values, allowDuplicate) up to its await: api.createExpense is invoked
\* with the receiptPath of the render whose closure runs
Submit(values, allowDuplicate, receipt, via) ==
    /\ Len(creates) < MaxCreates
    /\ creates' = Append(creates, [values |-> values, receipt |-> receipt,
                                   allowDuplicate |-> allowDuplicate, via |-> via])

\* the user fills in or changes the form by hand
TypeForm ==
    /\ Clickable
    /\ form = "default"
    /\ form' = "filled"
    /\ UNCHANGED <<mounted, receiptPath, ocrBusy, ocrProgress, ocrDraft, ocrOpen,
                   confirmMissingReceipt, duplicateState, submitting, creates,
                   pickPending, toasts>>
    /\ UNCHANGED ocrVars
    /\ UNCHANGED parseVars

\* the save button: handleSubmit starts validating; its callbacks close over
\* the receiptPath of this render
SubmitClick ==
    /\ Clickable
    /\ ~SaveDisabled
    /\ submitting' = [active |-> TRUE, receipt |-> receiptPath]
    /\ UNCHANGED <<mounted, receiptPath, ocrBusy, ocrProgress, ocrDraft, ocrOpen,
                   confirmMissingReceipt, duplicateState, form, creates,
                   pickPending, toasts>>
    /\ UNCHANGED ocrVars
    /\ UNCHANGED parseVars

\* the resolver answered: the onValid or the onInvalid callback of the form runs
SubmitValidated ==
    /\ submitting.active
    /\ submitting' = Idle
    /\ \E valid \in BOOLEAN :
        IF valid /\ form = "filled"
        THEN IF submitting.receipt = Null
             THEN /\ confirmMissingReceipt' = "values"
                  /\ UNCHANGED <<creates, toasts>>
             ELSE /\ Submit("values", FALSE, submitting.receipt, "form")
                  /\ UNCHANGED <<confirmMissingReceipt, toasts>>
        ELSE /\ Len(toasts) < MaxToasts
             /\ toasts' = Append(toasts, "danger")
             /\ UNCHANGED <<confirmMissingReceipt, creates>>
    /\ UNCHANGED <<mounted, receiptPath, ocrBusy, ocrProgress, ocrDraft, ocrOpen,
                   duplicateState, form, pickPending>>
    /\ UNCHANGED ocrVars
    /\ UNCHANGED parseVars

\* The FormValues object that onConfirm of the missing-receipt dialog hands to
\* submit. It is the object the dialog held; the model tells it apart from the
\* values of a submission that was never confirmed, so that every later call
\* made with it (the duplicate dialog passes the same object on) can be traced
\* to the confirmation.
ConfirmedValues == "values, missing receipt confirmed"

\* onConfirm of the missing-receipt dialog
ConfirmMissing ==
    /\ Clickable
    /\ confirmMissingReceipt # Null
    /\ Submit(ConfirmedValues, FALSE, receiptPath, "missingReceipt")
    /\ confirmMissingReceipt' = Null
    /\ UNCHANGED <<mounted, receiptPath, ocrBusy, ocrProgress, ocrDraft, ocrOpen,
                   duplicateState, form, submitting, pickPending, toasts>>
    /\ UNCHANGED ocrVars
    /\ UNCHANGED parseVars

\* onCancel of the missing-receipt dialog
CancelMissing ==
    /\ Clickable
    /\ confirmMissingReceipt # Null
    /\ confirmMissingReceipt' = Null
    /\ UNCHANGED <<mounted, receiptPath, ocrBusy, ocrProgress, ocrDraft, ocrOpen,
                   duplicateState, form, submitting, creates, pickPending,
                   toasts>>
    /\ UNCHANGED ocrVars
    /\ UNCHANGED parseVars

\* onConfirm of the duplicate dialog
ConfirmDuplicate ==
    /\ Clickable
    /\ duplicateState # Null
    /\ Submit(duplicateState, TRUE, receiptPath, "duplicate")
    /\ duplicateState' = Null
    /\ UNCHANGED <<mounted, receiptPath, ocrBusy, ocrProgress, ocrDraft, ocrOpen,
                   confirmMissingReceipt, form, submitting, pickPending, toasts>>
    /\ UNCHANGED ocrVars
    /\ UNCHANGED parseVars

\* onCancel of the duplicate dialog
CancelDuplicate ==
    /\ Clickable
    /\ duplicateState # Null
    /\ duplicateState' = Null
    /\ UNCHANGED <<mounted, receiptPath, ocrBusy, ocrProgress, ocrDraft, ocrOpen,
                   confirmMissingReceipt, form, submitting, creates,
                   pickPending, toasts>>
    /\ UNCHANGED ocrVars
    /\ UNCHANGED parseVars

Without(seq, i) == SubSeq(seq, 1, i - 1) \o SubSeq(seq, i + 1, Len(seq))

\* api.createExpense answered: the rest of submit runs
CreateSettled ==
    /\ \E i \in 1..Len(creates), outcome \in {"saved", "duplicate", "failed"} :
        /\ creates' = Without(creates, i)
        /\ CASE outcome = "saved" ->
                    /\ Len(toasts) < MaxToasts
                    /\ toasts' = Append(toasts, "success")
                    /\ form' = "default"
                    /\ receiptPath' = Null
                    /\ UNCHANGED duplicateState
             [] outcome = "duplicate" ->
                    /\ duplicateState' = creates[i].values
                    /\ UNCHANGED <<toasts, form, receiptPath>>
             [] outcome = "failed" ->
                    /\ Len(toasts) < MaxToasts
                    /\ toasts' = Append(toasts, "danger")
                    /\ UNCHANGED <<duplicateState, form, receiptPath>>
    /\ UNCHANGED <<mounted, ocrBusy, ocrProgress, ocrDraft, ocrOpen,
                   confirmMissingReceipt, submitting, pickPending>>
    /\ UNCHANGED ocrVars
    /\ UNCHANGED parseVars

\* the pick button: api.pickReceipt() opens the file dialog
PickClick ==
    /\ Clickable
    /\ pickPending' = TRUE
    /\ UNCHANGED <<mounted, receiptPath, ocrBusy, ocrProgress, ocrDraft, ocrOpen,
                   confirmMissingReceipt, duplicateState, form, submitting, creates, toasts>>
    /\ UNCHANGED ocrVars
    /\ UNCHANGED parseVars

\* the file dialog of the pick button answered
PickSettled ==
    /\ pickPending
    /\ pickPending' = FALSE
    /\ \E outcome \in Paths \cup {Null, "rejected"} :
        CASE outcome \in Paths -> receiptPath' = outcome /\ UNCHANGED toasts
          [] outcome = Null -> UNCHANGED <<receiptPath, toasts>>
          [] outcome = "rejected" ->
                /\ Len(toasts) < MaxToasts
                /\ toasts' = Append(toasts, "danger")
                /\ UNCHANGED receiptPath
    /\ UNCHANGED <<mounted, ocrBusy, ocrProgress, ocrDraft, ocrOpen,
                   confirmMissingReceipt, duplicateState, form, submitting, creates>>
    /\ UNCHANGED ocrVars
    /\ UNCHANGED parseVars

\* an onChange of the review modal: setOcrDraft((prev) => ({ ... }))
EditDraft ==
    /\ Clickable
    /\ ocrOpen
    /\ ocrDraft' = "edited"
    /\ UNCHANGED <<mounted, receiptPath, ocrBusy, ocrProgress, ocrOpen,
                   confirmMissingReceipt, duplicateState, form, submitting, creates, pickPending, toasts>>
    /\ UNCHANGED ocrVars
    /\ UNCHANGED parseVars

\* mutant: applying the suggestion saves the expense at once
ApplySuggestion_Saves(filled) ==
    /\ ocrOpen' = FALSE
    /\ form' = IF ocrDraft # Null /\ filled THEN "filled" ELSE form
    /\ Len(creates) < MaxCreates
    /\ creates' = Append(creates, [values |-> "values", receipt |-> receiptPath,
                                   allowDuplicate |-> FALSE, via |-> "form"])
    /\ UNCHANGED <<mounted, receiptPath, ocrBusy, ocrProgress, ocrDraft,
                   confirmMissingReceipt, duplicateState, submitting, pickPending,
                   toasts>>

\* what applyOcrSuggestion does to the page: setValue calls, setOcrOpen(false)
ApplySuggestion(filled) ==
    /\ ocrOpen' = FALSE
    /\ form' = IF ocrDraft # Null /\ filled THEN "filled" ELSE form
    /\ UNCHANGED <<mounted, receiptPath, ocrBusy, ocrProgress, ocrDraft,
                   confirmMissingReceipt, duplicateState, submitting, creates,
                   pickPending, toasts>>

\* the apply button of the review modal; filled: the draft has a non-empty field
ApplyOcrSuggestion ==
    /\ Clickable
    /\ ocrOpen
    /\ \E filled \in BOOLEAN : ApplySuggestion(filled)
    /\ UNCHANGED ocrVars
    /\ UNCHANGED parseVars

\* cancel button or onClose of the review modal
CloseOcrModal ==
    /\ Clickable
    /\ ocrOpen
    /\ ocrOpen' = FALSE
    /\ UNCHANGED <<mounted, receiptPath, ocrBusy, ocrProgress, ocrDraft,
                   confirmMissingReceipt, duplicateState, form, submitting, creates, pickPending, toasts>>
    /\ UNCHANGED ocrVars
    /\ UNCHANGED parseVars

\* toastStore.removeToast, called by the viewport's timers
RemoveToast ==
    /\ \E i \in 1..Len(toasts) : toasts' = Without(toasts, i)
    /\ UNCHANGED <<mounted, receiptPath, ocrBusy, ocrProgress, ocrDraft, ocrOpen,
                   confirmMissingReceipt, duplicateState, form, submitting, creates, pickPending>>
    /\ UNCHANGED ocrVars
    /\ UNCHANGED parseVars

(***************************************************************************)
(* The expense page with its extractions                                    *)
(***************************************************************************)
\* an optional value: absent, or present with its value
None == <<>>
Some(v) == <<v>>
Present(o) == o # None

NoSuggestion ==
    [date |-> None, amount |-> None, mwstRate |-> None, description |-> None,
     note |-> None]

\* no call of suggestCategoryId
SuggestIdle ==
    /\ categories = <<>>
    /\ suggestedCategoryId = None
    /\ suggestPc = "off"

\* no call of parseDecimalInput
DecimalIdle ==
    /\ decimalInput = <<>>
    /\ numberValue = None
    /\ decimalPc = "off"

ParseIdle ==
    /\ text = <<>>
    /\ suggestion = NoSuggestion
    /\ parsePc = "off"
    /\ SuggestIdle
    /\ DecimalIdle

PageInit ==
    /\ mounted = TRUE
    /\ receiptPath = Null
    /\ ocrBusy = FALSE
    /\ ocrProgress = Null
    /\ ocrDraft = Null
    /\ ocrOpen = FALSE
    /\ confirmMissingReceipt = Null
    /\ duplicateState = Null
    /\ form = "default"
    /\ submitting = Idle
    /\ creates = <<>>
    /\ pickPending = FALSE
    /\ toasts = <<>>

Init ==
    /\ ocrMode \in OcrModes
    /\ ocrApiKey \in ApiKeys
    /\ onLine \in BOOLEAN
    /\ ocrJob = FreeJob
    /\ PageInit
    /\ ParseIdle

JobNext ==
    \/ ScanPicked
    \/ ReadResolved
    \/ ReadRejected
    \/ FetchSettled
    \/ JsonSettled
    \/ RasterSettled
    \/ WorkerSettled
    \/ Progress
    \/ RecognizeSettled
    \/ TerminateSettled

\* the dispatcher under the page that starts it; the form stays untouched
Next ==
    \/ ClickScan
    \/ JobNext
    \/ NetworkChange
    \/ Unmount
    \/ RemoveToast

Spec == Init /\ [][Next]_vars

\* The form and the extraction on the mounted page. What the page sees of
\* runReceiptOcr (progress events, then a result or an error) is the same in
\* every mode, so the page is explored in the offline mode; the dispatcher's
\* own branching is explored under Spec. The receipt read is a PDF: its way
\* through the local engine has every step of an image's and the rendering of
\* the first page before them. One save awaits its answer at a time.
PageSpecInit ==
    /\ ocrMode = "offline"
    /\ ocrApiKey = <<>>
    /\ onLine = TRUE
    /\ ocrJob = FreeJob
    /\ PageInit
    /\ ParseIdle

PageJobNext ==
    \/ ScanPicked
    \/ ReadResolved /\ ocrJob'.contentType = "application/pdf"
    \/ ReadRejected
    \/ RasterSettled
    \/ WorkerSettled
    \/ Progress
    \/ RecognizeSettled
    \/ TerminateSettled

PageNext ==
    \/ ClickScan
    \/ PageJobNext
    \/ TypeForm
    \/ SubmitClick
    \/ SubmitValidated /\ Len(creates') <= MaxPageCreates
    \/ ConfirmMissing /\ Len(creates') <= MaxPageCreates
    \/ CancelMissing
    \/ ConfirmDuplicate /\ Len(creates') <= MaxPageCreates
    \/ CancelDuplicate
    \/ CreateSettled
    \/ PickClick
    \/ PickSettled
    \/ EditDraft
    \/ ApplyOcrSuggestion
    \/ CloseOcrModal
    \/ RemoveToast

SpecPage == PageSpecInit /\ [][PageNext]_vars

\* The form, its two dialogs and the pending saves, without an extraction: two
\* api.createExpense calls can await their answers at the same time.
FormNext ==
    \/ TypeForm
    \/ SubmitClick
    \/ SubmitValidated
    \/ ConfirmMissing
    \/ CancelMissing
    \/ ConfirmDuplicate
    \/ CancelDuplicate
    \/ CreateSettled
    \/ PickClick
    \/ PickSettled
    \/ RemoveToast

SpecForm == PageSpecInit /\ [][FormNext]_vars


(***************************************************************************)
(* Strings of the extractors (src/lib/ocr.ts, src/lib/parse.ts)             *)
(***************************************************************************)
\* \d
Digit == {"0", "1", "2", "3", "4", "5", "6", "7", "8", "9"}

UpperCase ==
    <<"A", "B", "C", "D", "E", "F", "G", "H", "I", "J", "K", "L", "M", "N", "O", "P",
      "Q", "R", "S", "T", "U", "V", "W", "X", "Y", "Z">>

LowerCase ==
    <<"a", "b", "c", "d", "e", "f", "g", "h", "i", "j", "k", "l", "m", "n", "o", "p",
      "q", "r", "s", "t", "u", "v", "w", "x", "y", "z">>

\* \p{L}, and [a-z] under the i flag, over the characters of the model
Letter == {UpperCase[i] : i \in 1..Len(UpperCase)} \cup {LowerCase[i] : i \in 1..Len(LowerCase)}

\* the trailing punctuation class [.,;:]
Punctuation == {".", ",", ";", ":"}

\* the lower-case letter of every upper-case letter
LowerOf ==
    [c \in {UpperCase[i] : i \in 1..Len(UpperCase)} |->
        LowerCase[CHOOSE i \in 1..Len(UpperCase) : UpperCase[i] = c]]

toLowerChar(c) == IF c \in DOMAIN LowerOf THEN LowerOf[c] ELSE c

\* String.prototype.toLowerCase
toLowerCase(s) == [i \in 1..Len(s) |-> toLowerChar(s[i])]

\* the character at position p, "" past the end
At(s, p) == IF p \in 1..Len(s) THEN s[p] ELSE ""

\* s.substring(p - 1): the rest of s from position p
From(s, p) == SubSeq(s, p, Len(s))

\* k occurs in s at position p
StartsAt(s, p, k) ==
    /\ p + Len(k) - 1 <= Len(s)
    /\ \A j \in 1..Len(k) : s[p + j - 1] = k[j]

\* k occurs in s at position p, the case of the letters of s ignored
StartsAtIgnoringCase(s, p, k) ==
    /\ p + Len(k) - 1 <= Len(s)
    /\ \A j \in 1..Len(k) : toLowerChar(s[p + j - 1]) = k[j]

\* String.prototype.includes
Includes(s, k) == \E p \in 1..(Len(s) + 1) : StartsAt(s, p, k)

\* the length of the run of characters of class C that starts at position p
RECURSIVE Run(_, _, _)
Run(s, p, C) == IF At(s, p) \in C THEN 1 + Run(s, p + 1, C) ELSE 0

\* replace(/C+/g, " "): every run of characters of class C becomes one space
RECURSIVE CollapseRuns(_, _)
CollapseRuns(s, C) ==
    IF s = <<>> THEN <<>>
    ELSE IF Head(s) \in C
         THEN <<" ">> \o CollapseRuns(From(s, 1 + Run(s, 1, C)), C)
         ELSE <<Head(s)>> \o CollapseRuns(Tail(s), C)

\* replace(/[.,;:]+$/, ""): the punctuation at the end of the string is dropped
RECURSIVE StripTrailingPunctuation(_)
StripTrailingPunctuation(s) ==
    IF s # <<>> /\ s[Len(s)] \in Punctuation
    THEN StripTrailingPunctuation(SubSeq(s, 1, Len(s) - 1))
    ELSE s

\* the number of characters of class C in s
CountIn(s, C) == Cardinality({i \in 1..Len(s) : s[i] \in C})

\* Array.prototype.join
RECURSIVE Join(_, _)
Join(strs, sep) ==
    IF strs = <<>> THEN <<>>
    ELSE IF Len(strs) = 1 THEN strs[1]
    ELSE strs[1] \o sep \o Join(Tail(strs), sep)

\* text.split(/\r?\n/): cut at every line feed, a carriage return right
\* before it belongs to the separator
RECURSIVE SplitLines(_, _)
SplitLines(s, cur) ==
    IF s = <<>> THEN <<cur>>
    ELSE IF Head(s) = "\n" THEN <<cur>> \o SplitLines(Tail(s), <<>>)
    ELSE IF Head(s) = "\r" /\ At(s, 2) = "\n" THEN <<cur>> \o SplitLines(From(s, 3), <<>>)
    ELSE SplitLines(Tail(s), Append(cur, Head(s)))

(***************************************************************************)
(* The line normalizer and classifier                                       *)
(***************************************************************************)
\* lines 88-90
normalizeOcrLine(line) ==
    Trim(StripTrailingPunctuation(CollapseRuns(CollapseRuns(line, {"|"}), Whitespace)))

\* lines 84-86
isTextLine(line) == (\E i \in 1..Len(line) : line[i] \in Letter) /\ Len(line) > 3

\* lines 94-106
noiseKeywords ==
    << <<"t", "o", "t", "a", "l">>,
       <<"s", "u", "m", "m", "e">>,
       <<"g", "e", "s", "a", "m", "t">>,
       <<"b", "e", "t", "r", "a", "g">>,
       <<"z", "u", " ", "z", "a", "h", "l", "e", "n">>,
       <<"d", "a", " ", "p", "a", "g", "a", "r", "e">>,
       <<"i", "m", "p", "o", "r", "t", "o">>,
       <<"m", "w", "s", "t">>,
       <<"u", "s", "t">>,
       <<"v", "a", "t">>,
       <<"i", "v", "a">> >>

\* keywords.some((keyword) => lower.includes(keyword))
IncludesAny(lower, keywords) == \E i \in 1..Len(keywords) : Includes(lower, keywords[i])

\* lines 92-108
isNoiseLine(line) == IncludesAny(toLowerCase(line), noiseKeywords)

(***************************************************************************)
(* Numbers: the value m / 10^e of a decimal numeral, kept exactly            *)
(***************************************************************************)
DigitChars == <<"0", "1", "2", "3", "4", "5", "6", "7", "8", "9">>

DigitValue(c) == (CHOOSE i \in 1..Len(DigitChars) : DigitChars[i] = c) - 1

\* the value of a string of digits (0 for the empty string)
RECURSIVE ToNat(_)
ToNat(s) ==
    IF s = <<>> THEN 0
    ELSE ToNat(SubSeq(s, 1, Len(s) - 1)) * 10 + DigitValue(s[Len(s)])

RECURSIVE Pow10(_)
Pow10(e) == IF e = 0 THEN 1 ELSE 10 * Pow10(e - 1)

NaN == [kind |-> "NaN", m |-> 0, e |-> 0]

\* one representation per value: no trailing zero in the fraction
RECURSIVE Num(_, _)
Num(m, e) ==
    IF e > 0 /\ m % 10 = 0 THEN Num(m \div 10, e - 1)
    ELSE [kind |-> "finite", m |-> m, e |-> e]

isFinite(n) == n.kind = "finite"

\* a < b, a <= b and a + k for finite numbers a, b and an integer k
Less(a, b) == a.m * Pow10(b.e) < b.m * Pow10(a.e)
LessEq(a, b) == a.m * Pow10(b.e) <= b.m * Pow10(a.e)
Plus(a, k) == Num(a.m + k * Pow10(a.e), a.e)

\* Number(string) for the numerals the extractors produce: digits with at
\* most one "." among them; every other string of these characters is NaN
NumberOf(s) ==
    LET dots == {i \in 1..Len(s) : s[i] = "."}
    IN  IF \/ \E i \in 1..Len(s) : s[i] \notin Digit \cup {"."}
           \/ Cardinality(dots) > 1
           \/ CountIn(s, Digit) = 0
        THEN NaN
        ELSE IF dots = {} THEN Num(ToNat(s), 0)
        ELSE LET d == CHOOSE i \in dots : TRUE
             IN  Num(ToNat(SubSeq(s, 1, d - 1) \o From(s, d + 1)), Len(s) - d)

\* replace(/[C]/g, "")
Remove(s, C) == SelectSeq(s, LAMBDA c : c \notin C)

\* replace(",", "."): the first occurrence only
ReplaceFirstComma(s) ==
    IF \E i \in 1..Len(s) : s[i] = ","
    THEN LET p == CHOOSE i \in 1..Len(s) : s[i] = "," /\ \A j \in 1..(i - 1) : s[j] # ","
         IN  [s EXCEPT ![p] = "."]
    ELSE s

\* mutant: the points stay when the string has a comma as well
parseDecimalInput_KeepsPoints(value) ==
    LET trimmed == Trim(value)
        stripped == Remove(trimmed, Whitespace \cup {"'"})
        normalized == ReplaceFirstComma(stripped)
    IN  IF trimmed = <<>> \/ normalized = <<>> THEN None
        ELSE IF isFinite(NumberOf(normalized)) THEN Some(NumberOf(normalized))
        ELSE None

\* src/lib/parse.ts lines 6-18: the string branch of parseDecimalInput. Of
\* the separators [\s'\u2019] the typographic apostrophe is no character of
\* the modelled texts.
parseDecimalInput(value) ==
    LET trimmed == Trim(value)
        stripped == Remove(trimmed, Whitespace \cup {"'"})
        normalized ==
            IF Includes(stripped, <<",">>) /\ Includes(stripped, <<".">>)
            THEN ReplaceFirstComma(Remove(stripped, {"."}))
            ELSE ReplaceFirstComma(stripped)
    IN  IF trimmed = <<>> \/ normalized = <<>> THEN None
        ELSE IF isFinite(NumberOf(normalized)) THEN Some(NumberOf(normalized))
        ELSE None

\* the number values that are not finite
Infinity == [kind |-> "Infinity", m |-> 0, e |-> 0]
NegativeInfinity == [kind |-> "-Infinity", m |-> 0, e |-> 0]

\* a value of type unknown: its typeof (null apart), with the number of a
\* number and the characters of a string
NullValue == [type |-> "null", number |-> NaN, string |-> <<>>]
UndefinedValue == [type |-> "undefined", number |-> NaN, string |-> <<>>]
BooleanValue == [type |-> "boolean", number |-> NaN, string |-> <<>>]
NumberValue(n) == [type |-> "number", number |-> n, string |-> <<>>]
StringValue(s) == [type |-> "string", number |-> NaN, string |-> s]

\* mutant: a number below zero is no value
parseDecimalUnknown_RejectsNegative(input) ==
    IF input.type \in {"null", "undefined"} THEN None
    ELSE IF input.type = "number"
         THEN (IF isFinite(input.number) /\ input.number.m >= 0 THEN Some(input.number) ELSE None)
    ELSE IF input.type = "string" THEN parseDecimalInput(input.string)
    ELSE None

\* src/lib/parse.ts lines 1-20: parseDecimalInput on a value of any type;
\* its string branch is parseDecimalInput above
parseDecimalUnknown(input) ==
    IF input.type \in {"null", "undefined"} THEN None
    ELSE IF input.type = "number"
         THEN (IF isFinite(input.number) THEN Some(input.number) ELSE None)
    ELSE IF input.type = "string" THEN parseDecimalInput(input.string)
    ELSE None

(***************************************************************************)
(* The amount and price patterns (lines 110-120)                             *)
(***************************************************************************)
\* (?:[.,]\d{2}) at position p
DecimalsAt(s, p) ==
    At(s, p) \in {".", ","} /\ At(s, p + 1) \in Digit /\ At(s, p + 2) \in Digit

\* (?:[\s'.]\d{3}) at position p
GroupAt(s, p) ==
    /\ At(s, p) \in Whitespace \cup {"'", "."}
    /\ At(s, p + 1) \in Digit /\ At(s, p + 2) \in Digit /\ At(s, p + 3) \in Digit

\* (?:[\s'.]\d{3})*(?:[.,]\d{2}) from position p, as many groups as lead to a
\* match: the position after the match, 0 without one
RECURSIVE GroupsThenDecimals(_, _)
GroupsThenDecimals(s, p) ==
    IF GroupAt(s, p) /\ GroupsThenDecimals(s, p + 4) # 0 THEN GroupsThenDecimals(s, p + 4)
    ELSE IF DecimalsAt(s, p) THEN p + 3
    ELSE 0

\* \d{1,3}(?:[\s'.]\d{3})*(?:[.,]\d{2}) at position p, three digits tried first
GroupedAmountEnd(s, p) ==
    LET ks == {k \in 1..3 : k <= Run(s, p, Digit) /\ GroupsThenDecimals(s, p + k) # 0}
    IN  IF ks = {} THEN 0
        ELSE GroupsThenDecimals(s, p + (CHOOSE k \in ks : \A j \in ks : j <= k))

\* \d+[.,]\d{2} at position p
PlainAmountEnd(s, p) ==
    LET n == Run(s, p, Digit)
    IN  IF n >= 1 /\ DecimalsAt(s, p + n) THEN p + n + 3 ELSE 0

\* AMOUNT_PATTERN at position p: the first alternative wins over the second
AmountEnd(s, p) ==
    IF GroupedAmountEnd(s, p) # 0 THEN GroupedAmountEnd(s, p) ELSE PlainAmountEnd(s, p)

\* AMOUNT_PATTERN.test(line)
hasAmount(line) == \E p \in 1..Len(line) : AmountEnd(line, p) # 0

\* line.match(/.../g): the matches from left to right, none overlapping
RECURSIVE AmountMatches(_, _)
AmountMatches(s, p) ==
    IF p > Len(s) THEN <<>>
    ELSE IF AmountEnd(s, p) # 0
         THEN <<SubSeq(s, p, AmountEnd(s, p) - 1)>> \o AmountMatches(s, AmountEnd(s, p))
         ELSE AmountMatches(s, p + 1)

\* (?:chf|fr|eur)
Currencies == {<<"c", "h", "f">>, <<"f", "r">>, <<"e", "u", "r">>}

\* the positions after \s* from a position of P
SkipSpace(s, P) == UNION {p..(p + Run(s, p, Whitespace)) : p \in P}

\* the positions after (?:chf|fr|eur)? under the i flag
OptionalCurrency(s, P) ==
    P \cup {pc[1] + Len(pc[2]) :
                pc \in {x \in P \X Currencies : StartsAtIgnoringCase(s, x[1], x[2])}}

\* the positions after [C]?
OptionalOne(s, P, C) == P \cup {p + 1 : p \in {q \in P : At(s, q) \in C}}

\* the positions after any number of (?:[\s'.]\d{3}) from position p
RECURSIVE GroupEnds(_, _)
GroupEnds(s, p) == {p} \cup (IF GroupAt(s, p) THEN GroupEnds(s, p + 4) ELSE {})

\* every position the amount pattern can end at when it starts in P
AmountEnds(s, P) ==
    LET heads(p) ==
            UNION {GroupEnds(s, p + k) : k \in {j \in 1..3 : j <= Run(s, p, Digit)}}
                \cup {p + k : k \in 1..Run(s, p, Digit)}
    IN  {q + 3 : q \in {h \in UNION {heads(p) : p \in P} : DecimalsAt(s, h)}}

\* \s*(?:chf|fr|eur)?\s*(amount)\s*(?:chf|fr|eur)?\s*[a-z]?\s*[.,;:]?\s*
PriceEnds(s, P) ==
    LET amount == AmountEnds(s, SkipSpace(s, OptionalCurrency(s, SkipSpace(s, P))))
        unit == SkipSpace(s, OptionalCurrency(s, SkipSpace(s, amount)))
    IN  SkipSpace(s, OptionalOne(s, SkipSpace(s, OptionalOne(s, unit, Letter)), Punctuation))

\* lines 114-116: PRICE_ONLY_PATTERN spans the whole line
isPriceOnlyLine(line) == Len(line) + 1 \in PriceEnds(line, {1})

\* TRAILING_PRICE_PATTERN matches from position p to the end of the line (of
\* the two dashes of [-\u2013] the modelled texts have the hyphen only)
TrailingPriceAt(line, p) == Len(line) + 1 \in PriceEnds(line, OptionalOne(line, {p}, {"-"}))

\* lines 118-120: the leftmost trailing price is cut off
stripTrailingPrice(line) ==
    LET starts == {p \in 1..Len(line) : TrailingPriceAt(line, p)}
    IN  IF starts = {} THEN Trim(line)
        ELSE Trim(SubSeq(line, 1, (CHOOSE p \in starts : \A q \in starts : p <= q) - 1))

(***************************************************************************)
(* The item extractor (lines 122-165)                                        *)
(***************************************************************************)
\* /(tel|fax|www|http|@)/i
contactMarks ==
    << <<"t", "e", "l">>, <<"f", "a", "x">>, <<"w", "w", "w">>, <<"h", "t", "t", "p">>, <<"@">> >>

\* lines 122-130
looksLikeItemLine(line) ==
    /\ isTextLine(line) /\ ~isNoiseLine(line)
    /\ CountIn(line, Letter) >= 2
    /\ ~(CountIn(line, Digit) > CountIn(line, Letter) * 2)
    /\ ~IncludesAny(toLowerCase(line), contactMarks)

\* line 143 and 153: the loop stops at six items
MaxItems == 6

\* line 161: the fallback stops at four items
MaxFallbackItems == 4

\* lines 134-155: the loop from position index on, with the items found so far
RECURSIVE ItemsLoop(_, _, _)
ItemsLoop(lines, index, items) ==
    IF index > Len(lines) THEN items
    ELSE
      LET line == normalizeOcrLine(lines[index])
          cleaned == stripTrailingPrice(line)
          next == IF index + 1 <= Len(lines) THEN normalizeOcrLine(lines[index + 1]) ELSE <<>>
      IN  IF isNoiseLine(line) \/ isPriceOnlyLine(line) THEN ItemsLoop(lines, index + 1, items)
          ELSE IF hasAmount(line)
               THEN IF Len(cleaned) >= 3 /\ looksLikeItemLine(cleaned)
                    THEN IF Len(items) + 1 >= MaxItems THEN Append(items, cleaned)
                         ELSE ItemsLoop(lines, index + 1, Append(items, cleaned))
                    ELSE ItemsLoop(lines, index + 1, items)
          ELSE IF ~looksLikeItemLine(line) THEN ItemsLoop(lines, index + 1, items)
          ELSE IF next # <<>> /\ isPriceOnlyLine(next)
               THEN IF Len(items) + 1 >= MaxItems THEN Append(items, line)
                    ELSE ItemsLoop(lines, index + 2, Append(items, line))
          ELSE ItemsLoop(lines, index + 1, items)

\* lines 157-163: without any item, up to four lines that look like items
FallbackItems(lines) ==
    LET found == SelectSeq(lines, LAMBDA l : ~isPriceOnlyLine(l) /\ looksLikeItemLine(l))
    IN  IF Len(found) > MaxFallbackItems THEN SubSeq(found, 1, MaxFallbackItems) ELSE found

\* lines 132-165
extractItems(lines) ==
    IF ItemsLoop(lines, 1, <<>>) = <<>> THEN FallbackItems(lines)
    ELSE ItemsLoop(lines, 1, <<>>)

(***************************************************************************)
(* The date extractor (lines 247-280)                                        *)
(***************************************************************************)
\* [.\-/]
DateSeparators == {".", "-", "/"}

Min(a, b) == IF a <= b THEN a ELSE b

\* a match of (\d{a,b})[.\-/](\d{c,d})[.\-/](\d{e,f}) at position p: the three
\* groups, or <<>>. Each group takes as many digits as it may; giving one back
\* never helps, because the character after it would then be a digit.
DateAt(s, p, lo, hi) ==
    LET n1 == Min(hi[1], Run(s, p, Digit))
        p2 == p + n1 + 1
        n2 == Min(hi[2], Run(s, p2, Digit))
        p3 == p2 + n2 + 1
        n3 == Min(hi[3], Run(s, p3, Digit))
    IN  IF /\ n1 >= lo[1] /\ At(s, p + n1) \in DateSeparators
           /\ n2 >= lo[2] /\ At(s, p2 + n2) \in DateSeparators
           /\ n3 >= lo[3]
        THEN <<SubSeq(s, p, p + n1 - 1), SubSeq(s, p2, p2 + n2 - 1), SubSeq(s, p3, p3 + n3 - 1)>>
        ELSE <<>>

\* line.match(pattern): the groups of the leftmost match, or <<>>
DateMatch(s, lo, hi) ==
    LET starts == {p \in 1..Len(s) : DateAt(s, p, lo, hi) # <<>>}
    IN  IF starts = {} THEN <<>>
        ELSE DateAt(s, CHOOSE p \in starts : \A q \in starts : p <= q, lo, hi)

\* line 249: /(\d{1,2})[.\-/](\d{1,2})[.\-/](\d{2,4})/
DayFirstMatch(s) == DateMatch(s, <<1, 1, 2>>, <<2, 2, 4>>)

\* line 250: /(\d{4})[.\-/](\d{1,2})[.\-/](\d{1,2})/
YearFirstMatch(s) == DateMatch(s, <<4, 1, 1>>, <<4, 2, 2>>)

\* String(n) of a natural number
RECURSIVE NatToString(_)
NatToString(n) ==
    IF n < 10 THEN <<DigitChars[n + 1]>>
    ELSE NatToString(n \div 10) \o <<DigitChars[(n % 10) + 1]>>

\* padStart(2, "0")
PadStart2(s) == IF Len(s) < 2 THEN <<"0">> \o s ELSE s

\* lines 275-280
toIsoDate(year, month, day) ==
    IF year = 0 \/ month = 0 \/ day = 0 THEN None
    ELSE Some(NatToString(year) \o <<"-">> \o PadStart2(NatToString(month))
                \o <<"-">> \o PadStart2(NatToString(day)))

\* mutant: every two-digit year is placed in 2000..2099
WindowedYear_ThisCentury(year) == IF year < 100 THEN year + 2000 ELSE year

\* lines 259-262: a two-digit year is placed in 1970..2069
WindowedYear(year) ==
    IF year < 100 THEN year + (IF year >= 70 THEN 1900 ELSE 2000) ELSE year

\* lines 247-273: the first line that matches a pattern decides, also when its
\* numbers make no date
RECURSIVE findDate(_)
findDate(lines) ==
    IF lines = <<>> THEN None
    ELSE LET dayFirst == DayFirstMatch(Head(lines))
             yearFirst == YearFirstMatch(Head(lines))
         IN  IF dayFirst # <<>>
             THEN toIsoDate(WindowedYear(ToNat(dayFirst[3])), ToNat(dayFirst[2]), ToNat(dayFirst[1]))
             ELSE IF yearFirst # <<>>
             THEN toIsoDate(ToNat(yearFirst[1]), ToNat(yearFirst[2]), ToNat(yearFirst[3]))
             ELSE findDate(Tail(lines))

(***************************************************************************)
(* The amount and tax-rate extractors (lines 282-320)                        *)
(***************************************************************************)
\* mutant: total is no keyword of the amount
amountKeywords_WithoutTotal ==
    << <<"s", "u", "m", "m", "e">>,
       <<"g", "e", "s", "a", "m", "t">>,
       <<"b", "e", "t", "r", "a", "g">>,
       <<"i", "m", "p", "o", "r", "t", "o">>,
       <<"d", "a", " ", "p", "a", "g", "a", "r", "e">>,
       <<"z", "u", " ", "z", "a", "h", "l", "e", "n">> >>

\* line 283
amountKeywords ==
    << <<"t", "o", "t", "a", "l">>,
       <<"s", "u", "m", "m", "e">>,
       <<"g", "e", "s", "a", "m", "t">>,
       <<"b", "e", "t", "r", "a", "g">>,
       <<"t", "o", "t", "a", "l", "e">>,
       <<"i", "m", "p", "o", "r", "t", "o">>,
       <<"d", "a", " ", "p", "a", "g", "a", "r", "e">>,
       <<"z", "u", " ", "z", "a", "h", "l", "e", "n">> >>

\* line 289
chfMarks == << <<"c", "h", "f">>, <<"f", "r">> >>

\* lines 296-297
KeywordBonus == 1000
ChfBonus == 500

\* mutant: a parsed amount of zero is kept as a candidate
RECURSIVE Candidates_KeepsZero(_, _)
Candidates_KeepsZero(raws, bonus) ==
    IF raws = <<>> THEN <<>>
    ELSE LET parsed == parseDecimalInput(Head(raws))
         IN  (IF parsed = None THEN <<>>
              ELSE <<[value |-> parsed[1], score |-> Plus(parsed[1], bonus)]>>)
             \o Candidates_KeepsZero(Tail(raws), bonus)

\* lines 292-299: the candidates of the matches raws of one line
RECURSIVE Candidates(_, _)
Candidates(raws, bonus) ==
    IF raws = <<>> THEN <<>>
    ELSE LET parsed == parseDecimalInput(Head(raws))
         IN  (IF parsed = None \/ LessEq(parsed[1], Num(0, 0)) THEN <<>>
              ELSE <<[value |-> parsed[1], score |-> Plus(parsed[1], bonus)]>>)
             \o Candidates(Tail(raws), bonus)

\* mutant: the bonus of a total keyword and of a currency token is forgotten
RECURSIVE AllCandidates_NoBonus(_)
AllCandidates_NoBonus(lines) ==
    IF lines = <<>> THEN <<>>
    ELSE Candidates(AmountMatches(Head(lines), 1), 0) \o AllCandidates_NoBonus(Tail(lines))

\* lines 286-300: the candidates of all lines, in the order of the text
RECURSIVE AllCandidates(_)
AllCandidates(lines) ==
    IF lines = <<>> THEN <<>>
    ELSE LET lower == toLowerCase(Head(lines))
             bonus == (IF IncludesAny(lower, amountKeywords) THEN KeywordBonus ELSE 0)
                      + (IF IncludesAny(lower, chfMarks) THEN ChfBonus ELSE 0)
         IN  Candidates(AmountMatches(Head(lines), 1), bonus) \o AllCandidates(Tail(lines))

\* mutant: without a candidate the amount defaults to zero
findAmount_DefaultsToZero(lines) ==
    LET candidates == AllCandidates(lines)
        best == CHOOSE i \in 1..Len(candidates) :
                    /\ \A j \in 1..Len(candidates) : LessEq(candidates[j].score, candidates[i].score)
                    /\ \A j \in 1..(i - 1) : Less(candidates[j].score, candidates[i].score)
    IN  IF candidates = <<>> THEN Some(Num(0, 0)) ELSE Some(candidates[best].value)

\* lines 282-305: the value of the highest score; the sort is stable, so the
\* first of several candidates with that score wins
findAmount(lines) ==
    LET candidates == AllCandidates(lines)
        best == CHOOSE i \in 1..Len(candidates) :
                    /\ \A j \in 1..Len(candidates) : LessEq(candidates[j].score, candidates[i].score)
                    /\ \A j \in 1..(i - 1) : Less(candidates[j].score, candidates[i].score)
    IN  IF candidates = <<>> THEN None ELSE Some(candidates[best].value)

\* line 308: /(mwst|ust|vat|iva)/i
rateKeywords ==
    << <<"m", "w", "s", "t">>, <<"u", "s", "t">>, <<"v", "a", "t">>, <<"i", "v", "a">> >>

\* line 309: (\d{1,2}(?:[.,]\d)?)\s*% at position p: the position after the
\* group, 0 without a match. The group takes all it may: with a digit given
\* back or the fraction left out, the next character is neither space nor %.
PercentAt(s, p) ==
    LET n == Min(2, Run(s, p, Digit))
        q == p + n
        after == IF At(s, q) \in {".", ","} /\ At(s, q + 1) \in Digit THEN q + 2 ELSE q
    IN  IF n >= 1 /\ At(s, after + Run(s, after, Whitespace)) = "%" THEN after ELSE 0

\* line.match(percentPattern)[1]: the group of the leftmost match, or <<>>
PercentMatch(s) ==
    LET starts == {p \in 1..Len(s) : PercentAt(s, p) # 0}
        first == CHOOSE p \in starts : \A q \in starts : p <= q
    IN  IF starts = {} THEN <<>> ELSE SubSeq(s, first, PercentAt(s, first) - 1)

\* lines 307-320
RECURSIVE findMwstRate(_)
findMwstRate(lines) ==
    IF lines = <<>> THEN None
    ELSE IF /\ IncludesAny(toLowerCase(Head(lines)), rateKeywords)
            /\ PercentMatch(Head(lines)) # <<>>
            /\ parseDecimalInput(PercentMatch(Head(lines))) # None
         THEN parseDecimalInput(PercentMatch(Head(lines)))
         ELSE findMwstRate(Tail(lines))

(***************************************************************************)
(* parseReceiptText (lines 61-82)                                            *)
(***************************************************************************)
\* lines 62-65
NormalizedLines(txt) ==
    LET raw == SplitLines(txt, <<>>)
    IN  SelectSeq([i \in 1..Len(raw) |-> normalizeOcrLine(raw[i])], LAMBDA l : Len(l) > 0)

\* mutant: the description is looked for among the lines that look like items
findDescription_ItemLines(lines) ==
    LET found == SelectSeq(lines, LAMBDA l : looksLikeItemLine(l) /\ ~isPriceOnlyLine(l))
    IN  IF found = <<>> THEN None ELSE Some(found[1])

\* line 67: lines.find(...)
findDescription(lines) ==
    LET found == SelectSeq(lines, LAMBDA l : isTextLine(l) /\ ~isNoiseLine(l))
    IN  IF found = <<>> THEN None ELSE Some(found[1])

parseReceiptText(txt) ==
    LET lines == NormalizedLines(txt)
        description == findDescription(lines)
        items == extractItems(lines)
    IN  [date |-> findDate(lines),
         amount |-> findAmount(lines),
         mwstRate |-> findMwstRate(lines),
         description |-> IF description # None THEN description
                         ELSE IF items # <<>> THEN Some(items[1]) ELSE None,
         note |-> IF Len(items) > 0 THEN Some(Join(items, <<",", " ">>)) ELSE None]

(***************************************************************************)
(* parseReceiptText on recognized texts                                     *)
(***************************************************************************)
\* the most lines of a recognized text
MaxLines == 2

\* lines as an engine recognizes them on a receipt: items, totals, tax
\* lines, dates in several notations, prices alone, numerals that are no
\* amount or no date, a vendor address, a blank line
ReceiptLines ==
    {<<"B", "r", "o", "t", " ", "3", ".", "2", "0">>,
     <<"T", "O", "T", "A", "L", " ", "C", "H", "F", " ", "5", ".", "0", "0">>,
     <<"M", "W", "S", "T", " ", "2", ".", "6", "%">>,
     <<"1", "2", ".", "0", "3", ".", "2", "0", "2", "4">>,
     <<"1", "2", "-", "0", "3", "-", "2", "4">>,
     <<"w", "w", "w", ".", "a", ".", "c", "h">>,
     <<"M", "I", "G", "R", "O", "S">>,
     <<"U", "S", "T", " ", "1", "0", "0", " ", "%", " ", "1", "/", "2", "/", "9", "9">>,
     <<"M", "w", "S", "t", " ", "2", ",", "6", "0", "%">>,
     <<"V", "A", "T", " ", "8", ".", "1", "%", " ", "1", "2", ".", "0", "3", ".", "2", "4">>,
     <<"0", ",", "0", "0">>,
     <<"1", ".", "2", "3", "4", ".", "5", "6", ":">>,
     <<"0", "0", ".", "0", "0", ".", "0", "0">>,
     <<"\r">>,
     <<"|", " ", "1", "'", "2", "3", "4", ",", "5", "0", " ", "C", "H", "F", " ", "|">>}

\* the recognized texts of up to MaxLines lines
Texts ==
    {Join(ls, <<"\n">>) : ls \in UNION {[1..k -> ReceiptLines] : k \in 0..MaxLines}}

\* ExpensePage line 207: parseReceiptText(result.text), the whole call
ParseText ==
    /\ parsePc = "ready"
    /\ suggestion' = parseReceiptText(text)
    /\ parsePc' = "done"
    /\ UNCHANGED <<text, categories, suggestedCategoryId, suggestPc, decimalInput, numberValue,
                   decimalPc>>
    /\ UNCHANGED pageVars
    /\ UNCHANGED ocrVars

ParseInit ==
    /\ text \in Texts
    /\ suggestion = NoSuggestion
    /\ parsePc = "ready"
    /\ SuggestIdle
    /\ DecimalIdle
    /\ ocrMode = "auto"
    /\ ocrApiKey = <<>>
    /\ onLine = TRUE
    /\ ocrJob = FreeJob
    /\ PageInit

ParseNext == ParseText

\* parseReceiptText applied to every recognized text of the bounds
SpecParse == ParseInit /\ [][ParseNext]_vars

(***************************************************************************)
(* The category suggester (src/pages/ExpensePage.tsx lines 48-98)            *)
(***************************************************************************)
\* toLowerCase of the letters with a diaeresis
LowerOfUmlaut == [c \in {"Ä", "Ö", "Ü"} |-> IF c = "Ä" THEN "ä" ELSE IF c = "Ö" THEN "ö" ELSE "ü"]

\* lines 51-54
Digraphs ==
    [c \in {"ä", "ö", "ü", "ß"} |->
        IF c = "ä" THEN <<"a", "e">>
        ELSE IF c = "ö" THEN <<"o", "e">>
        ELSE IF c = "ü" THEN <<"u", "e">>
        ELSE <<"s", "s">>]

\* lines 48-54
RECURSIVE normalizeText(_)
normalizeText(v) ==
    IF v = <<>> THEN <<>>
    ELSE LET c == IF Head(v) \in DOMAIN LowerOfUmlaut THEN LowerOfUmlaut[Head(v)]
                  ELSE toLowerChar(Head(v))
         IN  (IF c \in DOMAIN Digraphs THEN Digraphs[c] ELSE <<c>>) \o normalizeText(Tail(v))

\* [a-z0-9]
WordCharacters == {LowerCase[i] : i \in 1..Len(LowerCase)} \cup Digit

\* split(/[^a-z0-9]+/): the runs of word characters; the empty strings that
\* split leaves at the ends do not pass the filter of line 59
RECURSIVE Words(_, _)
Words(s, cur) ==
    IF s = <<>> THEN (IF cur = <<>> THEN <<>> ELSE <<cur>>)
    ELSE IF Head(s) \in WordCharacters THEN Words(Tail(s), Append(cur, Head(s)))
    ELSE (IF cur = <<>> THEN <<>> ELSE <<cur>>) \o Words(Tail(s), <<>>)

\* lines 56-59
tokenise(v) == SelectSeq(Words(normalizeText(v), <<>>), LAMBDA word : Len(word) > 2)

\* lines 61-70
categoryHints ==
    << [match |->
           << <<"l", "e", "b", "e", "n", "s", "m", "i", "t", "t", "e", "l">>,
              <<"z", "u", "t", "a", "t", "e", "n">>,
              <<"e", "i", "n", "k", "a", "u", "f">>,
              <<"f", "o", "o", "d">>,
              <<"a", "l", "i", "m", "e", "n", "t">> >>,
        keywords |->
           << <<"m", "i", "g", "r", "o", "s">>,
              <<"c", "o", "o", "p">>,
              <<"l", "i", "d", "l">>,
              <<"a", "l", "d", "i">>,
              <<"m", "a", "r", "k", "e", "t">>,
              <<"c", "a", "s", "h">> >>],
       [match |->
           << <<"v", "e", "r", "p", "a", "c", "k">>,
              <<"p", "a", "c", "k">>,
              <<"b", "o", "x">>,
              <<"b", "e", "c", "h", "e", "r">> >>,
        keywords |->
           << <<"b", "o", "x">>,
              <<"b", "e", "c", "h", "e", "r">>,
              <<"d", "e", "c", "k", "e", "l">>,
              <<"f", "o", "l", "i", "e">>,
              <<"t", "a", "k", "e">>,
              <<"a", "w", "a", "y">>,
              <<"v", "e", "r", "p", "a", "c", "k">> >>],
       [match |->
           << <<"f", "a", "h", "r">>,
              <<"t", "r", "e", "i", "b">>,
              <<"t", "a", "n", "k">>,
              <<"f", "u", "e", "l">>,
              <<"b", "e", "n", "z">>,
              <<"d", "i", "e", "s", "e", "l">> >>,
        keywords |->
           << <<"s", "h", "e", "l", "l">>,
              <<"b", "p">>,
              <<"a", "v", "i", "a">>,
              <<"a", "g", "i", "p">>,
              <<"e", "n", "i">>,
              <<"e", "s", "s", "o">>,
              <<"t", "a", "n", "k">> >>],
       [match |->
           << <<"r", "e", "i", "n", "i", "g", "u", "n", "g">>,
              <<"c", "l", "e", "a", "n">>,
              <<"d", "e", "t", "e", "r", "g">> >>,
        keywords |->
           << <<"r", "e", "i", "n", "i", "g", "u", "n", "g">>,
              <<"p", "u", "t", "z">>,
              <<"d", "e", "t", "e", "r", "g">>,
              <<"c", "l", "e", "a", "n">>,
              <<"s", "o", "a", "p">> >>],
       [match |->
           << <<"m", "a", "r", "k", "e", "t", "i", "n", "g">>,
              <<"w", "e", "r", "b", "u", "n", "g">>,
              <<"p", "r", "o", "m", "o">> >>,
        keywords |->
           << <<"w", "e", "r", "b", "u", "n", "g">>,
              <<"p", "r", "o", "m", "o">>,
              <<"p", "r", "o", "m", "o", "t", "i", "o", "n">>,
              <<"f", "a", "c", "e", "b", "o", "o", "k">>,
              <<"i", "n", "s", "t", "a", "g", "r", "a", "m">>,
              <<"a", "d", "s">>,
              <<"f", "l", "y", "e", "r">> >>],
       [match |->
           << <<"s", "t", "a", "n", "d", "p", "l", "a", "t", "z">>,
              <<"m", "i", "e", "t", "e">>,
              <<"g", "e", "b", "u", "e", "h", "r">>,
              <<"g", "e", "b", "u", "e", "h", "r", "e", "n">> >>,
        keywords |->
           << <<"m", "i", "e", "t", "e">>,
              <<"r", "e", "n", "t">>,
              <<"g", "e", "b", "u", "e", "h", "r">>,
              <<"s", "t", "a", "n", "d">>,
              <<"p", "l", "a", "t", "z">> >>],
       [match |->
           << <<"v", "e", "r", "s", "i", "c", "h", "e", "r", "u", "n", "g">>,
              <<"i", "n", "s", "u", "r", "a", "n", "c", "e">>,
              <<"a", "s", "s", "i", "c", "u", "r">> >>,
        keywords |->
           << <<"v", "e", "r", "s", "i", "c", "h", "e", "r", "u", "n", "g">>,
              <<"i", "n", "s", "u", "r", "a", "n", "c", "e">>,
              <<"a", "s", "s", "i", "c", "u", "r">> >>],
       [match |->
           << <<"r", "e", "p", "a", "r", "a", "t", "u", "r">>,
              <<"w", "a", "r", "t", "u", "n", "g">>,
              <<"s", "e", "r", "v", "i", "c", "e">> >>,
        keywords |->
           << <<"r", "e", "p", "a", "r", "a", "t", "u", "r">>,
              <<"w", "a", "r", "t", "u", "n", "g">>,
              <<"s", "e", "r", "v", "i", "c", "e">>,
              <<"o", "f", "f", "i", "c", "i", "n", "a">> >>] >>

\* a + b for finite numbers
Add(a, b) ==
    LET e == IF a.e >= b.e THEN a.e ELSE b.e
    IN  Num(a.m * Pow10(e - a.e) + b.m * Pow10(e - b.e), e)

\* mutant: the score of a keyword is not capped
KeywordScore_NoCap(keyword) == Num(10 + 2 * Len(keyword), 1)

\* line 84: Math.min(4, 1 + keyword.length / 5); the sums of these tenths are
\* kept exactly
KeywordScore(keyword) ==
    IF LessEq(Num(4, 0), Num(10 + 2 * Len(keyword), 1)) THEN Num(4, 0)
    ELSE Num(10 + 2 * Len(keyword), 1)

\* lines 82-86: the keywords of the category found in the haystack
RECURSIVE KeywordsScore(_, _)
KeywordsScore(keywords, haystack) ==
    IF keywords = <<>> THEN Num(0, 0)
    ELSE Add(IF Includes(haystack, Head(keywords)) THEN KeywordScore(Head(keywords))
             ELSE Num(0, 0),
             KeywordsScore(Tail(keywords), haystack))

\* lines 88-89: the hint is about the category and one of its keywords is in
\* the haystack
HintApplies(hint, name, haystack) ==
    /\ \E i \in 1..Len(hint.match) : Includes(name, hint.match[i])
    /\ \E i \in 1..Len(hint.keywords) : Includes(haystack, hint.keywords[i])

\* line 90
HintBonus == 3

\* mutant: the hints add nothing to the score
HintsScore_NoHints(name, haystack) == Num(0, 0)

\* lines 87-92
HintsScore(name, haystack) ==
    Num(HintBonus * Cardinality({i \in 1..Len(categoryHints) :
                                    HintApplies(categoryHints[i], name, haystack)}), 0)

\* lines 78-92: the score of one category
CategoryScore(category, haystack) ==
    LET name == normalizeText(category.name)
        description == normalizeText(category.description)
    IN  Add(KeywordsScore(tokenise(name \o <<" ">> \o description), haystack),
            HintsScore(name, haystack))

\* mutant: the inactive categories are scored like the active ones
RECURSIVE BestCategory_AnyCategory(_, _, _, _)
BestCategory_AnyCategory(cats, i, haystack, best) ==
    IF i > Len(cats) THEN best
    ELSE IF best = None \/ Less(best[1].score, CategoryScore(cats[i], haystack))
         THEN BestCategory_AnyCategory(cats, i + 1, haystack,
                           Some([id |-> cats[i].id, score |-> CategoryScore(cats[i], haystack)]))
         ELSE BestCategory_AnyCategory(cats, i + 1, haystack, best)

\* lines 76-96: the loop from position i on, with the best category so far
RECURSIVE BestCategory(_, _, _, _)
BestCategory(cats, i, haystack, best) ==
    IF i > Len(cats) THEN best
    ELSE IF ~cats[i].is_active THEN BestCategory(cats, i + 1, haystack, best)
    ELSE IF best = None \/ Less(best[1].score, CategoryScore(cats[i], haystack))
         THEN BestCategory(cats, i + 1, haystack,
                           Some([id |-> cats[i].id, score |-> CategoryScore(cats[i], haystack)]))
         ELSE BestCategory(cats, i + 1, haystack, best)

\* line 97: the confidence floor
ConfidenceFloor == 2

\* mutant: the best category is suggested whatever its score
suggestCategoryId_NoFloor(txt, cats) ==
    LET best == BestCategory(cats, 1, normalizeText(txt), None)
    IN  IF txt = <<>> \/ cats = <<>> THEN None
        ELSE IF best # None THEN Some(best[1].id)
        ELSE None

\* lines 72-98
suggestCategoryId(txt, cats) ==
    LET best == BestCategory(cats, 1, normalizeText(txt), None)
    IN  IF txt = <<>> \/ cats = <<>> THEN None
        ELSE IF best # None /\ LessEq(Num(ConfidenceFloor, 0), best[1].score) THEN Some(best[1].id)
        ELSE None

(***************************************************************************)
(* suggestCategoryId on texts and category lists                            *)
(***************************************************************************)
\* the most categories of a list
MaxCategories == 2

\* categories of the store: one per hint or keyword of interest, one with a
\* diaeresis in its name, one whose name itself names a vendor, one with a
\* long word in its name and the same word twice in its description
StoredCategories ==
    {[id |-> 1, name |-> <<"L", "e", "b", "e", "n", "s", "m", "i", "t", "t", "e", "l">>, description |-> <<>>],
     [id |-> 2, name |-> <<"F", "o", "o", "d">>, description |-> <<>>],
     [id |-> 3, name |-> <<"B", "ü", "r", "o">>, description |-> <<"P", "a", "p", "i", "e", "r">>],
     [id |-> 4, name |-> <<"M", "i", "g", "r", "o", "s", " ", "E", "i", "n", "k", "a", "u", "f">>, description |-> <<>>],
     [id |-> 5, name |-> <<"V", "e", "r", "p", "a", "c", "k", "u", "n", "g">>, description |-> <<"B", "e", "c", "h", "e", "r", " ", "B", "o", "x">>],
     [id |-> 6, name |-> <<"F", "a", "h", "r", "z", "e", "u", "g", "v", "e", "r", "s", "i", "c", "h", "e", "r", "u", "n", "g">>, description |-> <<"A", "u", "t", "o", " ", "A", "u", "t", "o">>]}

\* each of them active or not
Categories ==
    {[id |-> c.id, name |-> c.name, description |-> c.description, is_active |-> a] :
        c \in StoredCategories, a \in BOOLEAN}

\* the lists of up to MaxCategories categories, no id twice
CategoryLists ==
    {cs \in UNION {[1..k -> Categories] : k \in 0..MaxCategories} :
        \A i, j \in 1..Len(cs) : cs[i].id = cs[j].id => i = j}

\* texts with and without the keywords of the categories, in both cases of
\* the letters
CategoryTexts ==
    {<<>>,
     <<"M", "i", "g", "r", "o", "s">>,
     <<"M", "I", "G", "R", "O", "S", " ", "B", "r", "o", "t">>,
     <<"B", "Ü", "R", "O", " ", "B", "e", "c", "h", "e", "r">>,
     <<"Z", "u", "g">>,
     <<"f", "o", "o", "d">>,
     <<"F", "a", "h", "r", "z", "e", "u", "g", "v", "e", "r", "s", "i", "c", "h", "e", "r", "u", "n", "g", " ", "A", "u", "t", "o">>}

\* ExpensePage line 209: suggestCategoryId(suggestionText, categories), the
\* whole call
SuggestCategory ==
    /\ suggestPc = "ready"
    /\ suggestedCategoryId' = suggestCategoryId(text, categories)
    /\ suggestPc' = "done"
    /\ UNCHANGED <<text, suggestion, parsePc, categories, decimalInput, numberValue, decimalPc>>
    /\ UNCHANGED pageVars
    /\ UNCHANGED ocrVars

CategoryInit ==
    /\ text \in CategoryTexts
    /\ categories \in CategoryLists
    /\ suggestedCategoryId = None
    /\ suggestPc = "ready"
    /\ suggestion = NoSuggestion
    /\ parsePc = "off"
    /\ DecimalIdle
    /\ ocrMode = "auto"
    /\ ocrApiKey = <<>>
    /\ onLine = TRUE
    /\ ocrJob = FreeJob
    /\ PageInit

CategoryNext == SuggestCategory

\* suggestCategoryId applied to every text and category list of the bounds
SpecCategory == CategoryInit /\ [][CategoryNext]_vars

(***************************************************************************)
(* parseReceiptText on lines chosen per extractor                           *)
(***************************************************************************)
\* the recognized texts of up to MaxLines lines out of lines
TextsOver(lines) ==
    {Join(ls, <<"\n">>) : ls \in UNION {[1..k -> lines] : k \in 0..MaxLines}}

\* lines with dates: year first, day first, two-digit years (the years 69 and
\* 70 among them), numbers that make no date, and a line without any
DateLines ==
    {<<"2", "0", "2", "4", "-", "0", "3", "-", "0", "5", " ", "K", "a", "s", "s", "e", "n", "b", "o", "n">>,
     <<"R", "e", "c", "h", "n", "u", "n", "g", " ", "v", "o", "m", " ", "0", "5", ".", "0", "3", ".", "2", "4">>,
     <<"3", "2", ".", "1", "3", ".", "9", "9">>,
     <<"0", "0", ".", "0", "3", ".", "2", "4">>,
     <<"1", "2", ".", "0", "3", ".", "2", "0", "2", "4">>,
     <<"B", "r", "o", "t", " ", "3", ".", "2", "0">>,
     <<"1", "/", "2", "/", "9", "9">>,
     <<"2", "0", "2", "4", ".", "3", ".", "5">>,
     <<"1", ".", "1", ".", "7", "0">>,
     <<"3", "1", ".", "1", "2", ".", "6", "9">>}

\* lines with amounts: with and without a total keyword, with and without a
\* currency token, small and large, of the value zero, with a tax keyword,
\* and two of the same score
AmountLines ==
    {<<"T", "o", "t", "a", "l", " ", "5", ".", "0", "0">>,
     <<"T", "O", "T", "A", "L", " ", "C", "H", "F", " ", "5", ".", "0", "0">>,
     <<"L", "a", "p", "t", "o", "p", " ", "1", "'", "5", "0", "0", ".", "0", "0">>,
     <<"B", "r", "o", "t", " ", "3", ".", "2", "0">>,
     <<"C", "H", "F", " ", "6", "0", "0", ".", "0", "0">>,
     <<"P", "i", "z", "z", "a", " ", "M", "a", "r", "g", "h", "e", "r", "i", "t", "a", " ", "1", "8", ".", "5", "0">>,
     <<"T", "o", "t", "a", "l", " ", "C", "H", "F", " ", "1", "8", ".", "5", "0">>,
     <<"S", "u", "m", "m", "e", " ", "0", ",", "0", "0">>,
     <<"M", "w", "S", "t", " ", "1", ".", "5", "0">>,
     <<"T", "o", "t", "a", "l", " ", "1", "0", "0", ".", "0", "0">>}

\* lines with percentages: with and without a tax keyword, with one and two
\* decimals, with three digits, and a keyword line without percentage
RateLines ==
    {<<"M", "W", "S", "T", " ", "8", ".", "1", "%">>,
     <<"R", "a", "b", "a", "t", "t", " ", "1", "0", "%">>,
     <<"M", "w", "S", "t", " ", "2", ",", "6", "0", "%">>,
     <<"U", "S", "T", " ", "1", "0", "0", " ", "%">>,
     <<"i", "n", "k", "l", ".", " ", "7", ".", "7", " ", "%", " ", "V", "A", "T">>,
     <<"M", "W", "S", "T", " ", "i", "n", "k", "l", ".">>,
     <<"I", "V", "A", " ", "2", "2", "%">>,
     <<"T", "r", "i", "n", "k", "g", "e", "l", "d", " ", "5", " ", "%">>}

\* the receipt of a grocery: vendor, two items, total, tax, date
GroceryLines ==
    << <<"M", "I", "G", "R", "O", "S">>,
      <<"B", "r", "o", "t", " ", "3", ".", "2", "0">>,
      <<"M", "i", "l", "c", "h", " ", "1", ".", "8", "0">>,
      <<"T", "O", "T", "A", "L", " ", "C", "H", "F", " ", "5", ".", "0", "0">>,
      <<"M", "W", "S", "T", " ", "2", ".", "6", "%">>,
      <<"1", "2", ".", "0", "3", ".", "2", "0", "2", "4">> >>

GroceryReceipt == Join(GroceryLines, <<"\n">>)

\* lines with and without items: priced, unpriced, a price alone, a price
\* behind a price, a short name, a contact line, a noise line
ItemLines ==
    {<<"B", "r", "o", "t", " ", "3", ".", "2", "0">>,
     <<"K", "a", "f", "f", "e", "e">>,
     <<"3", ".", "2", "0">>,
     <<"C", "H", "F", " ", "5", ".", "0", "0", " ", "3", ".", "2", "0">>,
     <<"a", "b", " ", "3", ".", "2", "0">>,
     <<"T", "e", "l", " ", "0", "4", "4", " ", "1", "2", "3">>,
     <<"T", "o", "t", "a", "l", " ", "5", ".", "0", "0">>,
     <<"F", "r", ".", " ", "2", ".", "5", "0">>}

\* seven priced items, five lines without a price, and names with their
\* prices on the next line
ItemReceipts ==
    {Join(<< <<"B", "r", "o", "t", " ", "3", ".", "2", "0">>,
       <<"M", "i", "l", "c", "h", " ", "1", ".", "8", "0">>,
       <<"K", "a", "f", "f", "e", "e", " ", "4", ".", "5", "0">>,
       <<"T", "e", "e", " ", "3", ".", "0", "0">>,
       <<"S", "a", "l", "a", "t", " ", "9", ".", "5", "0">>,
       <<"P", "i", "z", "z", "a", " ", "1", "8", ".", "5", "0">>,
       <<"W", "a", "s", "s", "e", "r", " ", "2", ".", "0", "0">> >>, <<"\n">>),
     Join(<< <<"B", "r", "o", "t">>,
       <<"M", "i", "l", "c", "h">>,
       <<"K", "a", "f", "f", "e", "e">>,
       <<"S", "a", "l", "a", "t">>,
       <<"P", "i", "z", "z", "a">> >>, <<"\n">>),
     Join(<< <<"K", "a", "f", "f", "e", "e">>,
       <<"4", ".", "5", "0">>,
       <<"G", "i", "p", "f", "e", "l", "i">>,
       <<"1", ".", "8", "0">> >>, <<"\n">>)}

\* lines as the engines give them: with bars, runs of whitespace, and
\* punctuation at the end, before and behind whitespace
RawLines ==
    {<<"M", "I", "G", "R", "O", "S", ".", " ">>,
     <<"|", " ", "B", "r", "o", "t", " ", " ", "3", ".", "2", "0", " ", "|">>,
     <<"T", "o", "t", "a", "l", ":", " ", "5", ".", "0", "0", ";">>,
     <<" ", "K", "a", "f", "f", "e", "e", "\t", " ", "4", ".", "5", "0", " ">>,
     <<".", "|">>,
     <<"M", "i", "l", "c", "h", " ", "1", ".", "8", "0", " ", ",">>,
     <<"G", "i", "p", "f", "e", "l", "i">>}

FieldTexts ==
    TextsOver(DateLines) \cup TextsOver(AmountLines) \cup TextsOver(RateLines)
        \cup TextsOver(ItemLines) \cup TextsOver(RawLines) \cup ItemReceipts \cup {GroceryReceipt}

FieldsInit ==
    /\ text \in FieldTexts
    /\ suggestion = NoSuggestion
    /\ parsePc = "ready"
    /\ SuggestIdle
    /\ DecimalIdle
    /\ ocrMode = "auto"
    /\ ocrApiKey = <<>>
    /\ onLine = TRUE
    /\ ocrJob = FreeJob
    /\ PageInit

\* parseReceiptText applied to the texts chosen per extractor
SpecFields == FieldsInit /\ [][ParseNext]_vars

(***************************************************************************)
(* parseDecimalInput on typed strings                                       *)
(***************************************************************************)
\* the most characters of a typed string
MaxDecimalLen == 4

\* digits, both decimal marks, the apostrophe and the space
DecimalCharacters == {"0", "5", ",", ".", "'", " "}

\* the numerals of the locale examples, longer than MaxDecimalLen
DecimalExamples ==
    {<<"1", "'", "2", "3", "4", ".", "5", "0">>,
     <<"1", ".", "2", "3", "4", ",", "5", "0">>,
     <<"1", "2", ",", "5">>,
     <<" ", "1", " ", "2", "3", "4", ",", "5", "\t">>,
     <<"1", ",", "2", "3", "4", ".", "5", "0">>}

\* every string of up to MaxDecimalLen characters, and the examples
DecimalInputs ==
    UNION {[1..k -> DecimalCharacters] : k \in 0..MaxDecimalLen} \cup DecimalExamples

\* SettingsPage line 150: parseDecimalInput(event.target.value), the whole call
ParseDecimal ==
    /\ decimalPc = "ready"
    /\ numberValue' = parseDecimalInput(decimalInput)
    /\ decimalPc' = "done"
    /\ UNCHANGED <<text, suggestion, parsePc, categories, suggestedCategoryId, suggestPc, decimalInput>>
    /\ UNCHANGED pageVars
    /\ UNCHANGED ocrVars

DecimalInit ==
    /\ decimalInput \in DecimalInputs
    /\ numberValue = None
    /\ decimalPc = "ready"
    /\ text = <<>>
    /\ suggestion = NoSuggestion
    /\ parsePc = "off"
    /\ SuggestIdle
    /\ ocrMode = "auto"
    /\ ocrApiKey = <<>>
    /\ onLine = TRUE
    /\ ocrJob = FreeJob
    /\ PageInit

DecimalNext == ParseDecimal

\* parseDecimalInput applied to every string of the bounds
SpecDecimal == DecimalInit /\ [][DecimalNext]_vars

(***************************************************************************)
(* parseDecimalInput on the cells of an imported row                        *)
(***************************************************************************)
\* the largest mantissa of a number cell
MaxMantissa == 20

\* the most fraction digits of a number cell
MaxFraction == 2

\* the cells: missing ones, numbers below and above zero with and without a
\* fraction, the numbers that are not finite, a boolean, and the strings
CellValues ==
    {NullValue, UndefinedValue, BooleanValue}
        \cup {NumberValue(Num(m, e)) : m \in (0 - MaxMantissa)..MaxMantissa, e \in 0..MaxFraction}
        \cup {NumberValue(NaN), NumberValue(Infinity), NumberValue(NegativeInfinity)}
        \cup {StringValue(s) : s \in DecimalInputs}

\* AppShell line 144: parseDecimalInput(row[mapping.amount]), the whole call
ParseCell ==
    /\ decimalPc = "ready"
    /\ numberValue' = parseDecimalUnknown(decimalInput)
    /\ decimalPc' = "done"
    /\ UNCHANGED <<text, suggestion, parsePc, categories, suggestedCategoryId, suggestPc, decimalInput>>
    /\ UNCHANGED pageVars
    /\ UNCHANGED ocrVars

CellInit ==
    /\ decimalInput \in CellValues
    /\ numberValue = None
    /\ decimalPc = "ready"
    /\ text = <<>>
    /\ suggestion = NoSuggestion
    /\ parsePc = "off"
    /\ SuggestIdle
    /\ ocrMode = "auto"
    /\ ocrApiKey = <<>>
    /\ onLine = TRUE
    /\ ocrJob = FreeJob
    /\ PageInit

CellNext == ParseCell

\* parseDecimalInput applied to every cell of the bounds
SpecCell == CellInit /\ [][CellNext]_vars
(***************************************************************************)
(* Properties of the dispatcher (checked under Spec)                        *)
(***************************************************************************)
\* runReceiptOcr has been called in the current startOcr invocation
Called == ocrJob.log # <<>>

OnlineEvents == {"online:start", "online:fetch", "online:ok", "online:fail"}

\* the errors runOnlineOcr (or its fetch) can end with
RemoteErrors ==
    {"Kein API-Schluessel fuer Online-OCR", "Online-OCR fehlgeschlagen",
     "Online-OCR Fehler", "fetch", "json"}

\* the decision rule as the specification words it
RemoteWanted ==
    \/ ocrMode = "online"
    \/ ocrMode = "auto" /\ Len(ocrApiKey) > 0 /\ ocrJob.online

\* C1: runReceiptOcr attempts the remote path if and only if the mode is
\* online-forced, or the mode is auto and a credential is configured and the
\* host reports connectivity; otherwise it goes directly to the local path and
\* no remote attempt is made in that invocation.
C1_RemoteIffWanted ==
    Called =>
        /\ Has(ocrJob, "online:start") <=> RemoteWanted
        /\ ~RemoteWanted =>
              /\ ocrJob.log[1] = "offline:start"
              /\ \A i \in 1..Len(ocrJob.log) : ocrJob.log[i] \notin OnlineEvents
              /\ ocrJob.sent = <<>>

\* auto mode with a credential on a host without connectivity: local only
C1_Witness ==
    /\ ocrMode = "auto"
    /\ Len(ocrApiKey) > 0
    /\ ~ocrJob.online
    /\ Has(ocrJob, "offline:ok")

\* C2: when the remote attempt fails, the local path is started if and only
\* if the mode is auto; in the online-forced mode the remote error is the
\* outcome delivered to the caller and the local engine is never started.
C2_FallbackOnlyInAuto ==
    Has(ocrJob, "online:fail") =>
        /\ Has(ocrJob, "offline:start") <=> ocrMode = "auto"
        /\ ocrMode = "online" =>
              /\ ocrJob.pc = "ended"
              /\ ocrJob.result.status = "error"
              /\ ocrJob.result.error \in RemoteErrors
              /\ ocrJob.worker = "none"
              /\ ocrJob.image = <<>>

\* a forced remote attempt failed after its request was sent
C2_Witness ==
    /\ ocrMode = "online"
    /\ Has(ocrJob, "online:fetch")
    /\ Has(ocrJob, "online:fail")

\* C3: within one invocation the engines are never active at the same time:
\* the remote attempt has completed or failed before the local engine is
\* started, each engine is attempted at most once, no remote request follows
\* the start of the local path, and a local failure ends the invocation in
\* failure.
C3_OneEngineAtATime ==
    /\ Count(ocrJob, "online:start") <= 1
    /\ Count(ocrJob, "online:fetch") <= 1
    /\ Count(ocrJob, "offline:start") <= 1
    /\ Has(ocrJob, "offline:start") =>
          /\ ocrJob.pc \notin {"fetch", "json"}
          /\ ~Has(ocrJob, "online:ok")
          /\ Has(ocrJob, "online:start") => Has(ocrJob, "online:fail")
          /\ \A i \in 1..Len(ocrJob.log) :
                i > FirstAt(ocrJob, "offline:start") => ocrJob.log[i] \notin OnlineEvents
    /\ ocrJob.pc \in {"fetch", "json"} =>
          /\ ocrJob.worker = "none"
          /\ ocrJob.image = <<>>
    /\ Has(ocrJob, "offline:fail") =>
          /\ ocrJob.pc = "ended"
          /\ ocrJob.result.status = "error"
          /\ ocrJob.result.error \notin RemoteErrors

\* the remote attempt failed, then the local engine failed
C3_Witness ==
    /\ Has(ocrJob, "online:fetch")
    /\ Has(ocrJob, "online:fail")
    /\ Has(ocrJob, "offline:fail")
    /\ ocrJob.worker = "live"

\* C4: every successful outcome is tagged with the engine that produced the
\* returned text: "online" exactly when the remote attempt succeeded,
\* "offline" exactly when the text came from the local engine, also after a
\* fallback.
C4_TagNamesEngine ==
    ocrJob.result.status = "ok" =>
        /\ ocrJob.result.method \in {"online", "offline"}
        /\ ocrJob.result.method = "online" <=> Has(ocrJob, "online:ok")
        /\ ocrJob.result.method = "offline" <=> Has(ocrJob, "offline:ok")
        /\ Has(ocrJob, "online:ok") =>
              /\ ocrJob.result.text \in RemoteTexts
              /\ ocrJob.localText = Null
        /\ Has(ocrJob, "offline:ok") => ocrJob.result.text = ocrJob.localText

\* the local engine produced the text after the remote attempt failed
C4_Witness ==
    /\ Has(ocrJob, "online:fail")
    /\ ocrJob.result.status = "ok"
    /\ ocrJob.result.text = "local text"

\* C5: every worker the local path created is terminated before the
\* invocation ends, whether recognition succeeded or failed.
C5_WorkerReleased == ocrJob.pc = "ended" => ocrJob.worker # "live"

\* what startOcr writes: the page's state and the toast store
CallerState == <<receiptPath, ocrBusy, ocrProgress, ocrDraft, ocrOpen, toasts>>

\* C6: when the page is torn down while a recognition is in flight, the late
\* completion or failure of that job changes nothing of the caller's state.
C6_LateCompletionIgnored ==
    [][(~mounted /\ ocrJob' # ocrJob) => UNCHANGED CallerState]_vars

ExtractionStep ==
    \/ ocrJob' # ocrJob
    \/ ocrDraft' # ocrDraft
    \/ ocrOpen' # ocrOpen
    \/ ocrProgress' # ocrProgress
    \/ ocrBusy' # ocrBusy

\* a step that ends a form submission or confirms one of its dialogs
SubmissionStep ==
    \/ submitting.active /\ ~submitting'.active
    \/ confirmMissingReceipt # Null /\ confirmMissingReceipt' = Null
    \/ duplicateState # Null /\ duplicateState' = Null

\* C7: no extraction action ever persists a transaction: createExpense is
\* invoked only as a consequence of the user's form submission, and the save
\* action is never disabled because an extraction is running.
C7_ExtractionNeverSaves ==
    /\ [][/\ ExtractionStep => Len(creates') <= Len(creates)
          /\ Len(creates') > Len(creates) => SubmissionStep]_vars
    /\ []((ocrBusy \/ ocrJob.pc \notin {"free", "ended"}) /\ ~submitting.active
             => ~SaveDisabled)

\* a save in flight while a second extraction runs and the first one's edited
\* draft is in the form
C7_Witness ==
    /\ ocrJob.pc = "recognize"
    /\ ocrDraft = "edited"
    /\ form = "filled"
    /\ creates # <<>>


(***************************************************************************)
(* Properties of parseReceiptText (checked under SpecParse)                 *)
(***************************************************************************)
Zero == Num(0, 0)
Hundred == Num(100, 0)

\* C9: for every input text, the amount of the suggestion, when present, is a
\* strictly positive finite number, and its tax rate, when present, lies in
\* [0, 100).
C9_AmountAndRateInRange ==
    parsePc = "done" =>
        /\ Present(suggestion.amount) =>
              isFinite(suggestion.amount[1]) /\ Less(Zero, suggestion.amount[1])
        /\ Present(suggestion.mwstRate) =>
              /\ isFinite(suggestion.mwstRate[1])
              /\ LessEq(Zero, suggestion.mwstRate[1])
              /\ Less(suggestion.mwstRate[1], Hundred)

\* an amount with a thousands separator next to a rate read off "100 %": the
\* amount is positive, the rate is the lower end of its range
C9_Witness ==
    /\ parsePc = "done"
    /\ suggestion.amount = Some(Num(123450, 2))
    /\ \E i \in 1..Len(NormalizedLines(text)) :
          PercentMatch(NormalizedLines(text)[i]) = <<"0", "0">>
    /\ suggestion.mwstRate = Some(Zero)

Fields == {"date", "amount", "mwstRate", "description", "note"}

PresentFields(s) == {f \in Fields : Present(s[f])}

\* the combinations of present fields that the texts in ts yield
Combinations(ts) == {PresentFields(parseReceiptText(t)) : t \in ts}

\* which combinations occur is a property of the function, not of one parse:
\* it is evaluated once, in the state that ends the parse of the empty text
EmptyTextParsed == parsePc = "done" /\ text = <<>>

\* no line of the text matches the extractor of the field
NoMatch(lines, f) ==
    \A i \in 1..Len(lines) :
        CASE f = "date" -> DayFirstMatch(lines[i]) = <<>> /\ YearFirstMatch(lines[i]) = <<>>
          [] f = "amount" -> ~hasAmount(lines[i])
          [] f = "mwstRate" ->
                ~(IncludesAny(toLowerCase(lines[i]), rateKeywords) /\ PercentMatch(lines[i]) # <<>>)
          [] f = "description" -> ~(isTextLine(lines[i]) /\ ~isNoiseLine(lines[i]))
          [] f = "note" -> CountIn(lines[i], Letter) < 2

\* parseReceiptText returns a suggestion (each field absent or one value), a
\* field without a match is absent, and a text without any line yields no
\* field at all
AbsentWithoutMatch ==
    parsePc = "done" =>
          /\ DOMAIN suggestion = Fields
          /\ \A f \in Fields : Len(suggestion[f]) <= 1
          /\ \A f \in Fields : NoMatch(NormalizedLines(text), f) => ~Present(suggestion[f])
          /\ NormalizedLines(text) = <<>> => suggestion = NoSuggestion

\* C10 as stated: parseReceiptText never fails, a field whose extractor finds
\* no match is absent rather than a default, the five fields are absent or
\* present independently of each other (every combination occurs), and a text
\* without any match yields no field.
C10_FieldsIndependent ==
    /\ AbsentWithoutMatch
    /\ EmptyTextParsed => Combinations(Texts) = SUBSET Fields

\* C10 as amended: parseReceiptText never fails, a field whose extractor finds
\* no match is absent rather than a default, a text without any match yields
\* no field; date, amount and tax rate are absent or present independently of
\* each other and of description and note, description occurs without note,
\* but note is never present without description.
C10_NoteOnlyWithDescription ==
    /\ AbsentWithoutMatch
    /\ parsePc = "done" => (Present(suggestion.note) => Present(suggestion.description))
    /\ EmptyTextParsed =>
          Combinations(Texts) = {c \in SUBSET Fields : "note" \in c => "description" \in c}

\* a vendor address and a date: a description without items, no amount, no rate
C10_Witness ==
    /\ parsePc = "done"
    /\ PresentFields(suggestion) = {"date", "description"}
    /\ \E f \in {"amount", "mwstRate"} : NoMatch(NormalizedLines(text), f)

\* an item-candidate: at least two letters, not noise, not price-only, not
\* more than twice as many digits as letters, no contact line
ItemCandidate(line) ==
    /\ Cardinality({i \in 1..Len(line) : line[i] \in Letter}) >= 2
    /\ ~isNoiseLine(line)
    /\ ~isPriceOnlyLine(line)
    /\ Cardinality({i \in 1..Len(line) : line[i] \in Digit})
          <= 2 * Cardinality({i \in 1..Len(line) : line[i] \in Letter})
    /\ ~IncludesAny(toLowerCase(line), contactMarks)

\* a text line that is not noise: a letter, more than three characters, no
\* noise keyword
TextNotNoise(line) ==
    /\ \E i \in 1..Len(line) : line[i] \in Letter
    /\ Len(line) > 3
    /\ ~isNoiseLine(line)

\* the first line of a kind if there is one, else the first extracted item
\* if there is one, else nothing
FirstOrItem(lines, Kind(_)) ==
    LET of == {i \in 1..Len(lines) : Kind(lines[i])}
    IN  IF of # {} THEN Some(lines[CHOOSE i \in of : \A j \in of : i <= j])
        ELSE IF extractItems(lines) # <<>> THEN Some(extractItems(lines)[1])
        ELSE None

\* C24 as stated: the description is the first line that is an
\* item-candidate; without such a line it is the first extracted item, and
\* absent when there is neither.
C24_DescriptionIsItemCandidate ==
    parsePc = "done" =>
        suggestion.description = FirstOrItem(NormalizedLines(text), ItemCandidate)

\* C24 amended: the description is the first line that has a letter, is
\* longer than three characters and is not noise, be it an item-candidate or
\* not; without such a line it is the first extracted item, and absent when
\* there is neither.
C24_DescriptionIsTextLine ==
    parsePc = "done" =>
        suggestion.description = FirstOrItem(NormalizedLines(text), TextNotNoise)

\* the description is a line that is no item-candidate
C24_Witness ==
    /\ parsePc = "done"
    /\ Present(suggestion.description)
    /\ ~ItemCandidate(suggestion.description[1])
    /\ \E i \in 1..Len(NormalizedLines(text)) : NormalizedLines(text)[i] = suggestion.description[1]

(***************************************************************************)
(* Properties of the field extractors (checked under SpecFields)            *)
(***************************************************************************)
GroceryParsed == parsePc = "done" /\ text = GroceryReceipt

\* what the claim expects of the date, the amount, the rate and the note
GroceryFields ==
    /\ suggestion.date = Some(<<"2", "0", "2", "4", "-", "0", "3", "-", "1", "2">>)
    /\ suggestion.amount = Some(Num(5, 0))
    /\ suggestion.mwstRate = Some(Num(26, 1))
    /\ Present(suggestion.note)
    /\ Includes(suggestion.note[1], <<"B", "r", "o", "t">>)
    /\ Includes(suggestion.note[1], <<"M", "i", "l", "c", "h">>)

\* C11 as stated: the grocery receipt yields date 2024-03-12, amount 5.00,
\* tax rate 2.6, a description that is one of the item lines and a note that
\* contains both item lines.
C11_DescriptionIsItem ==
    GroceryParsed =>
        /\ GroceryFields
        /\ suggestion.description \in
              {Some(<<"B", "r", "o", "t", " ", "3", ".", "2", "0">>), Some(<<"M", "i", "l", "c", "h", " ", "1", ".", "8", "0">>), Some(<<"B", "r", "o", "t">>), Some(<<"M", "i", "l", "c", "h">>)}

\* C11 as amended: the grocery receipt yields date 2024-03-12, amount 5.00,
\* tax rate 2.6, the note "Brot, Milch" of both items, and as description the
\* first text line, the vendor line MIGROS, which is no item.
C11_DescriptionIsFirstTextLine ==
    GroceryParsed =>
        /\ GroceryFields
        /\ suggestion.note = Some(<<"B", "r", "o", "t", ",", " ", "M", "i", "l", "c", "h">>)
        /\ suggestion.description = Some(<<"M", "I", "G", "R", "O", "S">>)

\* the grocery receipt has been parsed
C11_Witness == GroceryParsed /\ suggestion.description = Some(NormalizedLines(text)[1])

\* the text has been parsed; its lines as the extractors get them
Parsed == parsePc = "done"

\* no date pattern matches the line
NoDateOn(line) == DayFirstMatch(line) = <<>> /\ YearFirstMatch(line) = <<>>

\* the numbers are a year, a month of the year and a day of a month
ValidTriple(year, month, day) == year >= 1 /\ month \in 1..12 /\ day \in 1..31

\* C15: a line with a year-month-day date of a four-digit year, with no date
\* line before it, gives exactly that year, month and day as the date: the
\* four digits are the year.
C15_YearFirstDateRead ==
    Parsed =>
        LET lines == NormalizedLines(text)
        IN  \A i \in 1..Len(lines) :
               LET ymd == YearFirstMatch(lines[i])
               IN  (/\ ymd # <<>>
                    /\ ValidTriple(ToNat(ymd[1]), ToNat(ymd[2]), ToNat(ymd[3]))
                    /\ \A j \in 1..(i - 1) : NoDateOn(lines[j]))
                   => suggestion.date =
                         Some(ymd[1] \o <<"-">> \o PadStart2(NatToString(ToNat(ymd[2])))
                                \o <<"-">> \o PadStart2(NatToString(ToNat(ymd[3]))))

\* the year, month and day that findDate reads off a line, or <<>>
TripleOn(line) ==
    LET dayFirst == DayFirstMatch(line)
        yearFirst == YearFirstMatch(line)
    IN  IF dayFirst # <<>>
        THEN <<WindowedYear(ToNat(dayFirst[3])), ToNat(dayFirst[2]), ToNat(dayFirst[1])>>
        ELSE IF yearFirst # <<>>
        THEN <<ToNat(yearFirst[1]), ToNat(yearFirst[2]), ToNat(yearFirst[3])>>
        ELSE <<>>

\* the line carries a date that exists
CarriesValidDate(line) ==
    /\ TripleOn(line) # <<>>
    /\ ValidTriple(TripleOn(line)[1], TripleOn(line)[2], TripleOn(line)[3])

\* C16: a line whose triple is invalid (a zero, or a day or month that does
\* not exist) gives no date, and the next lines are tried: the date is that
\* of the first line that carries a valid date, and none if there is no such
\* line.
C16_InvalidDateSkipped ==
    Parsed =>
        LET lines == NormalizedLines(text)
            valid == {i \in 1..Len(lines) : CarriesValidDate(lines[i])}
            first == CHOOSE i \in valid : \A j \in valid : i <= j
        IN  IF valid = {} THEN suggestion.date = None
            ELSE suggestion.date =
                    toIsoDate(TripleOn(lines[first])[1], TripleOn(lines[first])[2], TripleOn(lines[first])[3])

\* the positive amounts that a line carries
AmountsOn(line) == Candidates(AmountMatches(line, 1), 0)

\* the line contains a total keyword
HasTotalKeyword(line) == IncludesAny(toLowerCase(line), amountKeywords)

\* C17: of two lines that carry one positive amount each, the two amounts
\* distinct and a total keyword on one of the lines only, the amount of the
\* line with the keyword is selected, however large either amount is.
C17_TotalLineWins ==
    Parsed =>
        LET lines == NormalizedLines(text)
        IN  \A i, j \in 1..Len(lines) :
               (/\ Len(lines) = 2
                /\ i # j
                /\ Len(AmountsOn(lines[i])) = 1
                /\ Len(AmountsOn(lines[j])) = 1
                /\ AmountsOn(lines[i])[1].value # AmountsOn(lines[j])[1].value
                /\ HasTotalKeyword(lines[i])
                /\ ~HasTotalKeyword(lines[j]))
               => suggestion.amount = Some(AmountsOn(lines[i])[1].value)

\* the length of the run of characters of class C that ends at position p
RECURSIVE RunBack(_, _, _)
RunBack(s, p, C) == IF At(s, p) \in C THEN 1 + RunBack(s, p - 1, C) ELSE 0

\* the percentage token of a line: the whole numeral (digits, with or without
\* a fraction after a point or comma) that stands before the first percent
\* sign with a numeral before it, or <<>>
PercentageToken(line) ==
    LET EndOf(p) == p - 1 - RunBack(line, p - 1, Whitespace)
        marks == {p \in 1..Len(line) : line[p] = "%" /\ At(line, EndOf(p)) \in Digit}
        e == EndOf(CHOOSE p \in marks : \A q \in marks : p <= q)
        start == e - RunBack(line, e, Digit) + 1
        whole == IF At(line, start - 1) \in {".", ","}
                 THEN RunBack(line, start - 2, Digit) ELSE 0
    IN  IF marks = {} THEN <<>>
        ELSE SubSeq(line, IF whole > 0 THEN start - 1 - whole ELSE start, e)

\* the line contains a tax keyword, in any case of its letters
HasTaxKeyword(line) == IncludesAny(toLowerCase(line), rateKeywords)

\* C18: the tax rate is the percentage of the first line, in order, that
\* contains a tax keyword and carries a percentage token that parses; the
\* lines without a tax keyword are ignored, and without such a line there is
\* no rate.
C18_RateOfFirstTaxLine ==
    Parsed =>
        LET lines == NormalizedLines(text)
            taxed == {i \in 1..Len(lines) :
                         /\ HasTaxKeyword(lines[i])
                         /\ PercentageToken(lines[i]) # <<>>
                         /\ parseDecimalInput(PercentageToken(lines[i])) # None}
            first == CHOOSE i \in taxed : \A j \in taxed : i <= j
        IN  IF taxed = {} THEN suggestion.mwstRate = None
            ELSE suggestion.mwstRate = parseDecimalInput(PercentageToken(lines[first]))

\* the monetary tokens of the lines that parse, each with the line and the
\* place it was found at, its value and its score: the value, plus 1000 on a
\* line with one of the keywords, plus 500 on a line with chf or fr
ScoredTokens(lines, keywords) ==
    UNION {LET raws == AmountMatches(lines[i], 1)
               lower == toLowerCase(lines[i])
               bonus == (IF \E w \in keywords : Includes(lower, w) THEN 1000 ELSE 0)
                        + (IF Includes(lower, <<"c", "h", "f">>) \/ Includes(lower, <<"f", "r">>)
                           THEN 500 ELSE 0)
           IN  {[line |-> i, place |-> k,
                 value |-> parseDecimalInput(raws[k])[1],
                 score |-> Plus(parseDecimalInput(raws[k])[1], bonus)] :
                    k \in {j \in 1..Len(raws) : parseDecimalInput(raws[j]) # None}} :
           i \in 1..Len(lines)}

\* the token of the highest score, the first found of several with that score
HighestFirst(tokens) ==
    CHOOSE t \in tokens :
        \A u \in tokens :
            /\ LessEq(u.score, t.score)
            /\ (u.line < t.line \/ (u.line = t.line /\ u.place < t.place)) => Less(u.score, t.score)

\* the keywords of a total and of a tax
TotalKeywords ==
    {<<"t", "o", "t", "a", "l">>, <<"s", "u", "m", "m", "e">>, <<"g", "e", "s", "a", "m", "t">>,
     <<"b", "e", "t", "r", "a", "g">>, <<"t", "o", "t", "a", "l", "e">>,
     <<"i", "m", "p", "o", "r", "t", "o">>, <<"d", "a", " ", "p", "a", "g", "a", "r", "e">>,
     <<"z", "u", " ", "z", "a", "h", "l", "e", "n">>}
TaxKeywords == {<<"m", "w", "s", "t">>, <<"u", "s", "t">>, <<"v", "a", "t">>, <<"i", "v", "a">>}

\* C22 as stated: every monetary token of every line is scored with its
\* value, plus 1000 on a line with a total or tax keyword, plus 500 on a line
\* with chf or fr; the amount is the value of the highest score, the first
\* found on a tie.
C22_EveryTokenScored ==
    Parsed =>
        LET tokens == ScoredTokens(NormalizedLines(text), TotalKeywords \cup TaxKeywords)
        IN  IF tokens = {} THEN suggestion.amount = None
            ELSE suggestion.amount = Some(HighestFirst(tokens).value)

\* C22 amended: every monetary token of a value above zero is scored with
\* its value, plus 1000 on a line with a total keyword (a tax keyword adds
\* nothing), plus 500 on a line with chf or fr; the amount is the value of
\* the highest score, the first found on a tie, and absent without a token.
C22_PositiveTokensScored ==
    Parsed =>
        LET tokens == {t \in ScoredTokens(NormalizedLines(text), TotalKeywords) :
                          Less(Num(0, 0), t.value)}
        IN  IF tokens = {} THEN suggestion.amount = None
            ELSE suggestion.amount = Some(HighestFirst(tokens).value)

\* two tokens of different values and the same score: the first found is
\* the amount
C22_Witness ==
    /\ Parsed
    /\ \E t, u \in ScoredTokens(NormalizedLines(text), TotalKeywords) :
          /\ t.line < u.line
          /\ t.score = u.score
          /\ t.value # u.value
          /\ suggestion.amount = Some(t.value)

\* C25: the items number six at most, four at most when the rules with a
\* price found none and the fallback gave them, which happens in that case
\* only; every item is an item-candidate of three characters or more, no
\* noise line and no price-only line. The note is the items joined.
C25_ItemsAreCandidates ==
    Parsed =>
        LET lines == NormalizedLines(text)
            items == extractItems(lines)
            priced == ItemsLoop(lines, 1, <<>>)
        IN  /\ suggestion.note = (IF items = <<>> THEN None ELSE Some(Join(items, <<",", " ">>)))
            /\ Len(items) <= 6
            /\ priced = <<>> => Len(items) <= 4
            /\ priced # <<>> => items = priced
            /\ \A k \in 1..Len(items) :
                  /\ ItemCandidate(items[k])
                  /\ Len(items[k]) >= 3
                  /\ ~isNoiseLine(items[k])
                  /\ ~isPriceOnlyLine(items[k])

\* one or two digits, padded to two with a zero
TwoDigits(digits) == IF Len(digits) = 1 THEN <<"0">> \o digits ELSE digits

\* C26: when the first line with a date carries a day-month-year match with
\* a two-digit year yy, day and month not zero, the date is 19yy for yy >= 70
\* and 20yy for yy < 70, then the month and the day, each of two digits.
C26_TwoDigitYearWindowed ==
    Parsed =>
        LET lines == NormalizedLines(text)
        IN  \A i \in 1..Len(lines) :
               LET dmy == DayFirstMatch(lines[i])
               IN  (/\ dmy # <<>>
                    /\ Len(dmy[3]) = 2
                    /\ ToNat(dmy[1]) # 0
                    /\ ToNat(dmy[2]) # 0
                    /\ \A j \in 1..(i - 1) : NoDateOn(lines[j]))
                   => suggestion.date =
                         Some((IF ToNat(dmy[3]) >= 70 THEN <<"1", "9">> ELSE <<"2", "0">>)
                                \o dmy[3] \o <<"-">> \o TwoDigits(dmy[2])
                                \o <<"-">> \o TwoDigits(dmy[1]))

\* the year 1970 has been read off the two-digit year 70
C26_Witness ==
    /\ Parsed
    /\ text = <<"1", ".", "1", ".", "7", "0">>
    /\ suggestion.date = Some(<<"1", "9", "7", "0", "-", "0", "1", "-", "0", "1">>)

\* a line in normal form: not empty, no whitespace at either end, no two
\* whitespace characters in a row, no vertical bar, no punctuation at the end
InNormalForm(line) ==
    /\ line # <<>>
    /\ line[1] \notin Whitespace
    /\ line[Len(line)] \notin Whitespace
    /\ \A i \in 1..(Len(line) - 1) : ~(line[i] \in Whitespace /\ line[i + 1] \in Whitespace)
    /\ \A i \in 1..Len(line) : line[i] # "|"
    /\ line[Len(line)] \notin {".", ",", ";", ":"}

\* C27: every line that the extractors get is in normal form, and
\* normalizing it again changes nothing; so is the description, which is one
\* of these lines.
C27_LinesNormalized ==
    Parsed =>
        /\ \A i \in 1..Len(NormalizedLines(text)) :
              /\ InNormalForm(NormalizedLines(text)[i])
              /\ normalizeOcrLine(NormalizedLines(text)[i]) = NormalizedLines(text)[i]
        /\ Present(suggestion.description) => InNormalForm(suggestion.description[1])

(***************************************************************************)
(* Claims about the category suggester                                      *)
(***************************************************************************)
\* the active categories of a list, in the order of the list
ActiveOnly(cats) == SelectSeq(cats, LAMBDA c : c.is_active)

\* C12: whatever the text and the list, the suggested id is none or the id of
\* a category of the list that is active; and the inactive categories have no
\* influence: the result is the one the suggester gives on the list with the
\* inactive categories taken out, whatever their names and descriptions.
C12_OnlyActiveCategories ==
    suggestPc = "done" =>
        /\ \/ suggestedCategoryId = None
           \/ \E i \in 1..Len(categories) :
                 /\ categories[i].id = suggestedCategoryId[1]
                 /\ categories[i].is_active
        /\ suggestedCategoryId = suggestCategoryId(text, ActiveOnly(categories))

\* an inactive category whose name is in the text stands before an active
\* one, and the active one is suggested
C12_Witness ==
    /\ suggestPc = "done"
    /\ Len(categories) = 2
    /\ ~categories[1].is_active
    /\ Less(Num(0, 0), CategoryScore(categories[1], normalizeText(text)))
    /\ categories[2].is_active
    /\ suggestedCategoryId = Some(categories[2].id)

\* the positions of the active categories whose score no active category
\* exceeds and no earlier active category equals
FirstHighest(cats, haystack) ==
    {i \in 1..Len(cats) :
        /\ cats[i].is_active
        /\ \A j \in 1..Len(cats) :
              cats[j].is_active =>
                 /\ LessEq(CategoryScore(cats[j], haystack), CategoryScore(cats[i], haystack))
                 /\ j < i => Less(CategoryScore(cats[j], haystack), CategoryScore(cats[i], haystack))}

\* C13: the suggested id is that of the active category with the highest
\* score, the first in list order among several with that score, provided the
\* score is at least 2; with the highest score below 2 the result is none,
\* which covers the empty text and the list without an active category.
C13_FirstHighestAboveFloor ==
    suggestPc = "done" =>
        LET haystack == normalizeText(text)
            winners == FirstHighest(categories, haystack)
        IN  IF \E i \in winners : LessEq(Num(2, 0), CategoryScore(categories[i], haystack))
            THEN \E i \in winners : suggestedCategoryId = Some(categories[i].id)
            ELSE suggestedCategoryId = None

\* two active categories with the same score of at least 2: the first one is
\* suggested
C13_Witness ==
    /\ suggestPc = "done"
    /\ Len(categories) = 2
    /\ categories[1].is_active
    /\ categories[2].is_active
    /\ CategoryScore(categories[1], normalizeText(text)) = CategoryScore(categories[2], normalizeText(text))
    /\ LessEq(Num(2, 0), CategoryScore(categories[1], normalizeText(text)))
    /\ suggestedCategoryId = Some(categories[1].id)

\* the text contains Migros, in any case of its letters
MentionsMigros == Includes(toLowerCase(text), <<"m", "i", "g", "r", "o", "s">>)

\* the positions of the active categories named Lebensmittel
NamedLebensmittel ==
    {i \in 1..Len(categories) :
        /\ categories[i].is_active
        /\ categories[i].name = <<"L", "e", "b", "e", "n", "s", "m", "i", "t", "t", "e", "l">>}

\* no word of the name or description of the category is in the text, and no
\* hint about the category has a keyword in the text
NoOverlap(category, haystack) ==
    LET name == normalizeText(category.name)
        keywords == tokenise(name \o <<" ">> \o normalizeText(category.description))
    IN  /\ \A k \in 1..Len(keywords) : ~Includes(haystack, keywords[k])
        /\ \A h \in 1..Len(categoryHints) : ~HintApplies(categoryHints[h], name, haystack)

\* a text that overlaps with no active category of the list gets no suggestion
NoOverlapGivesNone ==
    (\A i \in 1..Len(categories) :
        categories[i].is_active => NoOverlap(categories[i], normalizeText(text)))
    => suggestedCategoryId = None

\* C14 as stated: for a text containing Migros and a list of active
\* categories with one named Lebensmittel, the suggested id is that of
\* Lebensmittel, whatever the other categories of the list; a text without
\* overlap gets none.
C14_MigrosGivesLebensmittel ==
    suggestPc = "done" =>
        /\ (/\ MentionsMigros
            /\ \A i \in 1..Len(categories) : categories[i].is_active)
           => \A i \in NamedLebensmittel : suggestedCategoryId = Some(categories[i].id)
        /\ NoOverlapGivesNone

\* C14 amended: for a text containing Migros and a list with an active
\* category named Lebensmittel, the suggested id is that of Lebensmittel
\* provided no other active category of the list scores higher, or as high
\* while standing earlier in the list; a text without overlap gets none.
C14_MigrosGivesLebensmittelUnlessOutscored ==
    suggestPc = "done" =>
        /\ MentionsMigros
           => \A i \in NamedLebensmittel \cap FirstHighest(categories, normalizeText(text)) :
                 suggestedCategoryId = Some(categories[i].id)
        /\ NoOverlapGivesNone

\* Lebensmittel stands behind another active category, which scores less,
\* and is suggested for a text with Migros in capitals
C14_Witness ==
    /\ suggestPc = "done"
    /\ MentionsMigros
    /\ text # toLowerCase(text)
    /\ Len(categories) = 2
    /\ categories[1].is_active
    /\ 2 \in NamedLebensmittel
    /\ suggestedCategoryId = Some(categories[2].id)

\* in tenths: min(4, 1 + length / 5) summed over the first n tokens that
\* occur in the haystack
RECURSIVE TokenTenths(_, _, _)
TokenTenths(tokens, n, haystack) ==
    IF n = 0 THEN 0
    ELSE TokenTenths(tokens, n - 1, haystack)
         + (IF ~Includes(haystack, tokens[n]) THEN 0
            ELSE IF 10 + 2 * Len(tokens[n]) > 40 THEN 40 ELSE 10 + 2 * Len(tokens[n]))

\* in tenths: the score that the rule gives a category for a text: the
\* tokens of more than 2 characters of the normalized name and description
\* found in the normalized text, and 3 for every hint with a match term in
\* the normalized name and a keyword term in the normalized text
RuleTenths(category, txt) ==
    LET haystack == normalizeText(txt)
        name == normalizeText(category.name)
        tokens == tokenise(name \o <<" ">> \o normalizeText(category.description))
        hints == {h \in 1..Len(categoryHints) :
                     /\ \E m \in 1..Len(categoryHints[h].match) :
                           Includes(name, categoryHints[h].match[m])
                     /\ \E k \in 1..Len(categoryHints[h].keywords) :
                           Includes(haystack, categoryHints[h].keywords[k])}
    IN  TokenTenths(tokens, Len(tokens), haystack) + 30 * Cardinality(hints)

\* C23: the score of every active category is the sum of min(4, 1 + length/5)
\* over its tokens found in the text plus 3 for every hint that applies, and
\* the suggestion is the one these scores give: the first active category of
\* the highest score if that is at least 2, none otherwise.
C23_ScoreByRule ==
    suggestPc = "done" =>
        LET active == {i \in 1..Len(categories) : categories[i].is_active}
            best == {i \in active :
                        \A j \in active :
                           /\ RuleTenths(categories[j], text) <= RuleTenths(categories[i], text)
                           /\ j < i => RuleTenths(categories[j], text) < RuleTenths(categories[i], text)}
        IN  /\ \A i \in active :
                  CategoryScore(categories[i], normalizeText(text))
                     = Num(RuleTenths(categories[i], text), 1)
            /\ IF text # <<>> /\ \E i \in best : RuleTenths(categories[i], text) >= 20
               THEN \E i \in best : suggestedCategoryId = Some(categories[i].id)
               ELSE suggestedCategoryId = None

\* a category with a capped token, a token that counts twice and a hint is
\* suggested: 4 + 1.8 + 1.8 + 3
C23_Witness ==
    /\ suggestPc = "done"
    /\ \E i \in 1..Len(categories) :
          /\ categories[i].is_active
          /\ RuleTenths(categories[i], text) = 106
          /\ suggestedCategoryId = Some(categories[i].id)

(***************************************************************************)
(* Claims about parseDecimalInput (checked under SpecDecimal)               *)
(***************************************************************************)
\* every comma becomes a point
CommasToPoints(s) == [i \in 1..Len(s) |-> IF s[i] = "," THEN "." ELSE s[i]]

\* the number that the stated procedure obtains from a string: trim, take
\* out whitespace and apostrophes, with both a comma and a point take out
\* every point, turn the commas into points, and read the numeral; none when
\* what is left is no numeral
NumberByProcedure(s) ==
    LET stripped == Remove(Trim(s), Whitespace \cup {"'"})
        converted == IF (\E i \in 1..Len(stripped) : stripped[i] = ",")
                        /\ (\E i \in 1..Len(stripped) : stripped[i] = ".")
                     THEN CommasToPoints(Remove(stripped, {"."}))
                     ELSE CommasToPoints(stripped)
    IN  IF isFinite(NumberOf(converted)) THEN Some(NumberOf(converted)) ELSE None

\* C20: for every string, parseDecimalInput gives the number of the stated
\* procedure (and no value where the procedure leaves no numeral); 1'234.50
\* and 1.234,50 both give 1234.5 and 12,5 gives 12.5.
C20_LocaleProcedure ==
    decimalPc = "done" =>
        /\ numberValue = NumberByProcedure(decimalInput)
        /\ decimalInput = <<"1", "'", "2", "3", "4", ".", "5", "0">> => numberValue = Some(Num(12345, 1))
        /\ decimalInput = <<"1", ".", "2", "3", "4", ",", "5", "0">> => numberValue = Some(Num(12345, 1))
        /\ decimalInput = <<"1", "2", ",", "5">> => numberValue = Some(Num(125, 1))

\* a numeral with the point as thousand separator and the comma as decimal
\* mark has been parsed
C20_Witness ==
    /\ decimalPc = "done"
    /\ decimalInput = <<"1", ".", "2", "3", "4", ",", "5", "0">>
    /\ numberValue = Some(Num(12345, 1))

\* C21: parseDecimalInput ends with a finite number or with no value on every
\* input; null, undefined, the empty string and the strings of whitespace
\* give no value, a number that is not finite gives no value, and a finite
\* number, below zero or not, is given back as it is.
C21_FiniteOrNoValue ==
    decimalPc = "done" =>
        /\ numberValue = None \/ (Len(numberValue) = 1 /\ numberValue[1].kind = "finite")
        /\ decimalInput.type \in {"null", "undefined"} => numberValue = None
        /\ (decimalInput.type = "string"
              /\ \A i \in 1..Len(decimalInput.string) : decimalInput.string[i] \in Whitespace)
           => numberValue = None
        /\ (decimalInput.type = "number" /\ decimalInput.number.kind # "finite")
           => numberValue = None
        /\ (decimalInput.type = "number" /\ decimalInput.number.kind = "finite")
           => numberValue = <<decimalInput.number>>

\* a number below zero has passed through
C21_Witness ==
    /\ decimalPc = "done"
    /\ decimalInput.type = "number"
    /\ decimalInput.number.kind = "finite"
    /\ decimalInput.number.m < 0
    /\ numberValue = <<decimalInput.number>>

(***************************************************************************)
(* The credential of the remote service                                     *)
(***************************************************************************)
BlankCredential == Trim(ocrApiKey) = <<>>

\* C28: no request is sent to the remote recognition service unless the
\* configured credential is non-blank after trimming: with a missing, empty
\* or whitespace-only credential the remote attempt fails before any request,
\* which in auto mode leads to the local path and in the online-forced mode
\* ends the invocation with the error delivered to the caller.
C28_NoRequestWithoutCredential ==
    (Called /\ BlankCredential) =>
        /\ ~Has(ocrJob, "online:fetch")
        /\ ocrJob.sent = <<>>
        /\ Has(ocrJob, "online:start") =>
              /\ FirstAt(ocrJob, "online:fail") = FirstAt(ocrJob, "online:start") + 1
              /\ Count(ocrJob, "online:start") = 1
        /\ ocrMode = "auto" => Has(ocrJob, "offline:start")
        /\ ocrMode = "online" =>
              /\ ocrJob.pc = "ended"
              /\ ocrJob.result.status = "error"
              /\ ocrJob.result.error = "Kein API-Schluessel fuer Online-OCR"
              /\ ~Has(ocrJob, "offline:start")
              /\ ~ocrBusy

\* auto mode with a whitespace-only credential: the remote attempt was made,
\* failed without a request, and the local engine delivered the text
C28_Witness ==
    /\ ocrMode = "auto"
    /\ ocrApiKey = <<" ">>
    /\ Has(ocrJob, "online:fail")
    /\ ocrJob.sent = <<>>
    /\ Has(ocrJob, "offline:ok")

(***************************************************************************)
(* The scan action of the expense page                                      *)
(***************************************************************************)
\* an extraction started by the scan action is running: startOcr is between
\* setOcrBusy(true) and its finally block
ExtractionRunning ==
    ocrJob.pc \in {"reading", "fetch", "json", "raster", "createWorker", "recognize",
                   "terminate"}

\* a step in which startOcr is entered or reaches setOcrBusy(true)
ScanStarts == ocrJob' # ocrJob /\ ocrJob'.pc \in {"picking", "reading"}

C30_NoReceiptOnlyIfConfirmed ==
    \A i \in 1..Len(creates) :
        creates[i].receipt = Null => creates[i].values = ConfirmedValues
====
